---------------------------- MODULE Spec2Model ----------------------------
(***************************************************************************)
(* js-rpc: the RPC protocol engine of src/src/lib.js.                      *)
(*                                                                         *)
(* One client pipeline (createRpcClientHelper) talks to server pipelines   *)
(* (createRpcServerHelper) over an ordered carrier.  A duplex carrier      *)
(* (WebSocket, MessagePort) has one server pipeline; the HTTP carrier      *)
(* (createRpcClientHttp / createRpcServerKoaRouter) opens one request, and *)
(* so one server pipeline, per outbound chunk.                             *)
(*                                                                         *)
(* Bytes: a header byte is a number 0..255.  A payload byte is a cell      *)
(* [k, v]: v is the content, k the key it is encrypted under (NoKey for    *)
(* clear text).  msgpackr's packing of [id, type, data] is three cells.    *)
(* 32-bit values above 2^31 do not fit the checker's integers, so a 32-bit *)
(* value read from a buffer is kept as its four little-endian bytes.       *)
(***************************************************************************)
EXTENDS Integers, Sequences, FiniteSets, TLC

\* ---------------------------------------------------------------- bounds
MaxInv == 2
MaxCb == 2
MaxFaults == 1
MaxRecs == 2
MaxLen == 2

\* ------------------------------------------------------- wire constants
HEADER_CHECK == <<95, 112, 247, 177>>
RPC_TYPE_CALL == "CALL"
RPC_TYPE_RETURN == "RETURN"
RPC_TYPE_CALLBACK == "CALLBACK"
RPC_TYPE_ERROR == "ERROR"
RPC_DATA_ARG_TYPE_OTHERS == 10942092
RPC_DATA_ARG_TYPE_FUNCTION == 8385631

NoKey == ""
Keys == {NoKey, "k1"}

\* what a caller passes for a callable argument
AsyncFunction == "AsyncFunction"
SyncFunction == "Function"

\* the element of a set of one element; Only({e(x) : x \in {v}}) is e of the
\* value of v, computed once
Only(S) == CHOOSE x \in S : TRUE

\* ------------------------------------------------------------ frame codec
Cell(v) == [k |-> NoKey, v |-> v]

WriteUInt32LE(value) ==
    << value % 256, (value \div 256) % 256,
       (value \div 65536) % 256, (value \div 16777216) % 256 >>

ReadUInt32LE(buffer, offset) == SubSeq(buffer, offset + 1, offset + 4)

\* the number a little-endian quadruple stands for; a number of 2^24 or more
\* stands as 2^24, which is more than any buffer here holds, so that every
\* comparison with a buffer length comes out as it does for the number itself
UInt32(q) ==
    IF q[4] = 0 THEN q[1] + 256 * q[2] + 65536 * q[3] ELSE 16777216

\* AES-GCM: the ciphertext is the data under the key, followed by the tag
encrypt(data, key) ==
    IF key = NoKey THEN data
    ELSE [i \in 1..(Len(data) + 1) |->
            IF i <= Len(data) THEN [k |-> key, v |-> data[i].v]
            ELSE [k |-> key, v |-> "tag"]]

\* a decryption that does not authenticate
decryptNoAuth(data, key) ==
    IF key = NoKey THEN [ok |-> TRUE, data |-> data]
    ELSE IF /\ Len(data) >= 1
            /\ \A i \in 1..Len(data) : data[i].k = key
            /\ data[Len(data)].v = "tag"
         THEN [ok |-> TRUE,
               data |-> [i \in 1..(Len(data) - 1) |-> Cell(data[i].v)]]
         ELSE [ok |-> TRUE, data |-> [i \in 1..Len(data) |-> Cell(data[i].v)]]

\* ok = FALSE: crypto.subtle.decrypt throws
decrypt(data, key) ==
    IF key = NoKey THEN [ok |-> TRUE, data |-> data]
    ELSE IF /\ Len(data) >= 1
            /\ \A i \in 1..Len(data) : data[i].k = key
            /\ data[Len(data)].v = "tag"
         THEN [ok |-> TRUE,
               data |-> [i \in 1..(Len(data) - 1) |-> Cell(data[i].v)]]
         ELSE [ok |-> FALSE, data |-> <<>>]

RECURSIVE buildBufferData(_, _)
buildBufferData(queue, key) ==
    IF queue = <<>> THEN <<>>
    ELSE Only({WriteUInt32LE(Len(buffer)) \o HEADER_CHECK \o buffer
                    \o buildBufferData(rest, key) :
               buffer \in {encrypt(Head(queue), key)}, rest \in {Tail(queue)}})

\* the while loop of parseBufferData, from `offset` on
RECURSIVE parseLoop(_, _, _, _)
parseLoop(buffer, offset, queue, key) ==
    IF offset >= Len(buffer)
    THEN [ok |-> TRUE, queue |-> queue, remain |-> <<>>]
    ELSE IF offset + 8 > Len(buffer)
    THEN [ok |-> TRUE, queue |-> queue,
          remain |-> SubSeq(buffer, offset + 1, Len(buffer))]
    ELSE LET bufferLength == UInt32(ReadUInt32LE(buffer, offset))
             headerCheck == ReadUInt32LE(buffer, offset + 4)
         IN  IF offset + 8 + bufferLength > Len(buffer)
             THEN [ok |-> TRUE, queue |-> queue,
                   remain |-> SubSeq(buffer, offset + 1, Len(buffer))]
             ELSE IF HEADER_CHECK # headerCheck
             THEN [ok |-> TRUE, queue |-> queue, remain |-> <<>>]
             ELSE LET data == SubSeq(buffer, offset + 9, offset + 8 + bufferLength)
                      buf == decrypt(data, key)
                  IN  IF ~buf.ok
                      THEN [ok |-> FALSE, queue |-> <<>>, remain |-> <<>>]
                      ELSE Only({parseLoop(buffer, next, received, key) :
                                    next \in {offset + 8 + bufferLength},
                                    received \in {Append(queue, buf.data)}})

parseBufferData(buffer, key) == Only({parseLoop(b, 0, <<>>, key) : b \in {buffer}})

\* a decode stream that forgets the bytes a chunk left over
DecodeTransformNoCarry(last, chunk, key) ==
    Only({[ok |-> r.ok, queue |-> r.queue, last |-> <<>>] :
          r \in {parseBufferData(last \o chunk, key)}})

\* one transform() of createDecodeStream: [ok, queue, last]
DecodeTransform(last, chunk, key) ==
    Only({[ok |-> r.ok, queue |-> r.queue, last |-> IF r.ok THEN r.remain ELSE last] :
          r \in {parseBufferData(last \o chunk, key)}})

\* a pass that hands every chunk on as it came
processPacketsRaw(last, chunk) == [out |-> chunk, last |-> <<>>]

\* one transform() of processPackets: [out, last]; out = <<>> enqueues nothing
processPackets(last, chunk) ==
    Only({[out |-> IF Len(r.queue) > 0 THEN buildBufferData(r.queue, NoKey) ELSE <<>>,
           last |-> r.remain] :
          r \in {parseBufferData(last \o chunk, NoKey)}})

\* ---------------------------------------------------------- message codec
IsArgList(type) == type = RPC_TYPE_CALL \/ type = RPC_TYPE_CALLBACK

buildRpcData(box) ==
    LET data == IF IsArgList(box.type)
                THEN [i \in DOMAIN box.data |-> <<box.data[i].type, box.data[i].data>>]
                ELSE box.data
    IN  << Cell(box.id), Cell(box.type), Cell(data) >>

\* a parseRpcData that hands the argument list back to front
parseRpcDataReversed(buffer) ==
    IF Len(buffer) = 3 /\ \A i \in 1..3 : buffer[i].k = NoKey
    THEN LET type == buffer[2].v
             data == buffer[3].v
         IN  [ok |-> TRUE, id |-> buffer[1].v, type |-> type,
              data |-> IF IsArgList(type)
                       THEN [i \in DOMAIN data |->
                                [type |-> data[Len(data) + 1 - i][1],
                                 data |-> data[Len(data) + 1 - i][2]]]
                       ELSE data]
    ELSE [ok |-> FALSE, id |-> 0, type |-> "", data |-> <<>>]

\* ok = FALSE: packr.unpack, the destructuring or data.map throws
parseRpcData(buffer) ==
    IF Len(buffer) = 3 /\ \A i \in 1..3 : buffer[i].k = NoKey
    THEN LET type == buffer[2].v
             data == buffer[3].v
         IN  [ok |-> TRUE, id |-> buffer[1].v, type |-> type,
              data |-> IF IsArgList(type)
                       THEN [i \in DOMAIN data |-> [type |-> data[i][1], data |-> data[i][2]]]
                       ELSE data]
    ELSE [ok |-> FALSE, id |-> 0, type |-> "", data |-> <<>>]

\* items: <<kind, x>>; a callable item is <<"fn", key>> (the thunk () => key)
buildRpcItemData(items) ==
    [i \in DOMAIN items |->
        IF items[i][1] = "fn"
        THEN [type |-> RPC_DATA_ARG_TYPE_FUNCTION, data |-> items[i][2]]
        ELSE [type |-> RPC_DATA_ARG_TYPE_OTHERS, data |-> items[i][2]]]

\* ------------------------------------------------------------------ state
Invs == 1..MaxInv
Pipes == 1..MaxInv

VARIABLES
    cfg,                  \* [async, http, key, scenario]: how the pipelines were
                          \* created, and what the callers ask for
    uniqueKeyID,          \* createRpcClientHelper: the id counter
    callbackFunctionMap,  \* createRpcClientHelper: id -> CALLBACK_ITEM
    inv,                  \* the apiInvoke activations, by invocation
    cWriter,              \* client encode.writable: records written, not yet encoded
    cDec,                 \* client decode stream: [last, err, queue]
    pktLast,              \* HTTP client: the carry of each response's processPackets
    requests,             \* HTTP client: requests posted so far
    c2s,                  \* carrier, client to server: chunks in flight, by pipe
    s2c,                  \* carrier, server to client: chunks in flight, by pipe
    srv,                  \* server pipelines: [last, err, queue, busy, writer], by pipe
    tasks,                \* rpcRunServerDecodeBuffer activations, in dispatch order; seen
                          \* and readAt: the contexts read, the tasks at the last read;
                          \* call: the record it was started on was a CALL
    faults,               \* carrier faults so far
    poison,               \* history: [on, pending] at the first bad frame delivered
    ws,                   \* createRpcClientWebSocket and its timeWaitRetryLoop
    codec,                \* a frame codec run: [records, key, wire, last, out, err], and
                          \* cut: a chunk has ended inside a frame header; chunks: what
                          \* a run of processPackets has enqueued
    peer,                 \* history: the last message a peer sent on its own account,
                          \* [n, id, type, role, owner], role and owner those of the
                          \* pending entry its id named when it arrived
    dead,                 \* HTTP client: the requests whose fetch or response body failed
    msg,                  \* a message codec run: [pc, box, bytes, back]
    derived,              \* client: buildKeyIv has settled, and start() of the encode
                          \* stream has set key and iv
    koa                   \* the POST handler of createRpcServerKoaRouter and the streams
                          \* of its helper: [pc, bp, closed, sent, calls, werr]

vars == << cfg, uniqueKeyID, callbackFunctionMap, inv, cWriter, cDec, pktLast,
           requests, c2s, s2c, srv, tasks, faults, poison, ws, codec, peer, dead, msg, derived, koa >>

clientVars == << uniqueKeyID, callbackFunctionMap, inv, cWriter, cDec, pktLast, requests >>
serverVars == << srv, tasks >>

\* a Map
MapSet(m, key, value) == [x \in (DOMAIN m) \cup {key} |-> IF x = key THEN value ELSE m[x]]
MapDelete(m, keys) == [x \in (DOMAIN m) \ keys |-> m[x]]
Range(f) == {f[x] : x \in DOMAIN f}

\* CALLBACK_ITEM: a result waiter holds the promise of invocation i,
\* a callback slot the callable at position pos of invocation i's arguments
Waiter(i) == [type |-> RPC_TYPE_RETURN, inv |-> i, pos |-> 0]
Slot(i, pos) == [type |-> RPC_TYPE_CALLBACK, inv |-> i, pos |-> pos]
HasPromise(o) == o.type = RPC_TYPE_RETURN
HasCallback(o) == o.type = RPC_TYPE_CALLBACK

\* by: the id of the message that settled the promise, Local for a local error;
\* log: the applications of its callables; running: how many of them have not
\* finished;
\* prior: the invocations already rejected when this one was issued
Local == -1
IdleInv ==
    [pc |-> "idle", fn |-> "", args |-> <<>>, id |-> -1, keys |-> <<>>,
     promise |-> "none", value |-> <<>>, by |-> Local, outcome |-> "none",
     log |-> <<>>, running |-> 0, prior |-> {}, caught |-> <<>>, early |-> FALSE]

\* JavaScript values a caller may pass: what kind of value, and which one
Undefined == [type |-> "undefined", repr |-> "undefined"]
Null == [type |-> "null", repr |-> "null"]
EchoValues ==
    {Undefined, Null, [type |-> "number", repr |-> "123"], [type |-> "string", repr |-> "abc"],
     [type |-> "Uint8Array", repr |-> "qwertyuiop"], [type |-> "Array", repr |-> "[123,'abc']"]}

\* what invocation i may ask for: the procedure name and the arguments; the
\* value it passes names the invocation, so that concurrent invocations differ
Hello(i) == [fn |-> "hello", args |-> << <<"val", i>> >>]
Callback(i) == [fn |-> "callback", args |-> << <<"val", i>>, <<"fn", AsyncFunction>> >>]
ThrowError(i) == [fn |-> "throwError", args |-> << <<"val", i>> >>]
\* a call that passes two callables, a value between them
Callback2(i) ==
    [fn |-> "callback", args |-> << <<"fn", AsyncFunction>>, <<"val", i>>, <<"fn", AsyncFunction>> >>]
\* a call of a procedure the extension does not have
NoSuch(i) == [fn |-> "noSuch", args |-> << <<"val", i>> >>]
Shapes(i) ==
    CASE cfg.scenario = "junk" -> {Callback(i), ThrowError(i)}
      [] cfg.scenario = "ws" -> {Hello(i)}
      [] cfg.scenario = "frag" -> {Hello(i), Callback(i)}
      [] cfg.scenario = "peer" -> {Hello(i), Callback(i)}
      [] cfg.scenario = "key" -> {Hello(i), Callback(i)}
      [] cfg.scenario = "cb" -> {Callback(i), Callback2(i)}
      [] cfg.scenario = "echo" ->
            {[fn |-> "echo", args |-> << <<"val", v>> >>] : v \in EchoValues}
                \cup {[fn |-> "void", args |-> << <<"val", v>> >>] : v \in {Null}}
      [] cfg.scenario = "live" ->
            {Hello(i), Callback(i), NoSuch(i), [fn |-> "longTimeBlock", args |-> <<>>]}
      [] OTHER ->
            {Hello(i), Callback(i), ThrowError(i),
             [fn |-> "callback", args |-> << <<"fn", AsyncFunction>>, <<"fn", SyncFunction>> >>],
             [fn |-> "callback", args |-> << <<"fn", SyncFunction>>, <<"val", i>> >>]}

\* a promise settles once: resolve and reject of a settled promise do nothing
Settle(invs, i, how, value, by) ==
    IF invs[i].promise = "pending"
    THEN [invs EXCEPT ![i].promise = how, ![i].value = value, ![i].by = by]
    ELSE invs

RPCError(message, stack) == [message |-> message, stack |-> stack]

\* callbackFunctionMap.forEach(o => o.promise?.reject(error)); callbackFunctionMap.clear()
RejectAll(cs, error) ==
    LET waiting == {o.inv : o \in {x \in Range(cs.map) : HasPromise(x)}}
    IN  [map |-> <<>>,
         inv |-> [i \in Invs |->
                    IF i \in waiting THEN Settle(cs.inv, i, "rejected", error, Local)[i]
                    ELSE cs.inv[i]]]

\* what the catch of the inbound sink is handed when a branch reads a field
\* the entry does not have
TypeError == RPCError("TypeError", "local")

\* a sink for which a remote error is fatal: the waiter of the call is rejected
\* with it, and every other waiter with it too
SinkErrorFatal(cs, o, data) ==
    RejectAll([cs EXCEPT !.inv = Settle(@, o.inv, "rejected",
                                        RPCError(data.data.message, data.data.stack), data.id)],
              RPCError(data.data.message, data.data.stack))

\* the inbound sink, data.type == RPC_TYPE_ERROR
SinkError(cs, o, data) ==
    IF HasPromise(o)
    THEN [cs EXCEPT !.inv = Settle(@, o.inv, "rejected",
                                   RPCError(data.data.message, data.data.stack), data.id)]
    ELSE RejectAll(cs, TypeError)

\* the inbound sink, data.type == RPC_TYPE_RETURN
SinkReturn(cs, o, data) ==
    LET deleted == [cs EXCEPT !.map = MapDelete(@, {data.id})]
    IN  IF HasPromise(o)
        THEN [deleted EXCEPT !.inv = Settle(@, o.inv, "resolved", data.data, data.id)]
        ELSE RejectAll(deleted, TypeError)

\* a sink that frees a callback slot once its callable was applied
SinkCallbackOnce(cs, o, data) ==
    IF HasCallback(o)
    THEN [cs EXCEPT !.map = MapDelete(@, {data.id}),
                    !.inv[o.inv].running = @ + 1,
                    !.inv[o.inv].log =
                        Append(@, [pos |-> o.pos,
                                   args |-> [j \in DOMAIN data.data |-> data.data[j].data]])]
    ELSE RejectAll(cs, TypeError)

\* the inbound sink, data.type == RPC_TYPE_CALLBACK: the callable is applied,
\* which the log of its invocation records, and runs on from its first await
SinkCallback(cs, o, data) ==
    IF HasCallback(o)
    THEN [cs EXCEPT !.inv[o.inv].running = @ + 1,
                    !.inv[o.inv].log =
                        Append(@, [pos |-> o.pos,
                                   args |-> [j \in DOMAIN data.data |-> data.data[j].data]])]
    ELSE RejectAll(cs, TypeError)

\* a sink that looks into the entry it did not find: the TypeError goes to its catch
SinkWriteNoGuard(cs, buffer) ==
    LET data == parseRpcData(buffer)
    IN  IF ~data.ok THEN RejectAll(cs, RPCError("unpack", "local"))
        ELSE IF data.id \notin DOMAIN cs.map THEN RejectAll(cs, TypeError)
        ELSE LET o == cs.map[data.id]
             IN  CASE data.type = RPC_TYPE_ERROR -> SinkError(cs, o, data)
                   [] data.type = RPC_TYPE_RETURN -> SinkReturn(cs, o, data)
                   [] data.type = RPC_TYPE_CALLBACK -> SinkCallback(cs, o, data)
                   [] OTHER -> cs

\* the write() of the client's inbound sink, on cs = [map, inv]
SinkWrite(cs, buffer) ==
    LET data == parseRpcData(buffer)
    IN  IF ~data.ok THEN RejectAll(cs, RPCError("unpack", "local"))
        ELSE IF data.id \notin DOMAIN cs.map THEN cs
        ELSE LET o == cs.map[data.id]
             IN  CASE data.type = RPC_TYPE_ERROR -> SinkError(cs, o, data)
                   [] data.type = RPC_TYPE_RETURN -> SinkReturn(cs, o, data)
                   [] data.type = RPC_TYPE_CALLBACK -> SinkCallback(cs, o, data)
                   [] OTHER -> cs

\* a counter that does not count
NextKeySame(id) == id

\* uniqueKeyID++
NextKey(id) == id + 1

\* an apiInvoke that takes every callable for an AsyncFunction
isAsyncFunctionAny(arg) == TRUE

\* const isAsyncFunction = arg.constructor?.name === 'AsyncFunction'
isAsyncFunction(arg) == arg[2] = AsyncFunction

\* the argument loop of apiInvoke, from position pos on,
\* on st = [id, map, keys, argArray, thrown]
RECURSIVE registerArgs(_, _, _, _)
registerArgs(i, args, pos, st) ==
    IF pos > Len(args) THEN st
    ELSE IF args[pos][1] = "fn"
    THEN IF ~isAsyncFunction(args[pos])
         THEN [st EXCEPT !.thrown = TRUE]
         ELSE registerArgs(i, args, pos + 1,
                [st EXCEPT !.id = NextKey(@),
                           !.keys = Append(@, st.id),
                           !.map = MapSet(@, st.id, Slot(i, pos)),
                           !.argArray = Append(@, <<"fn", st.id>>)])
    ELSE registerArgs(i, args, pos + 1, [st EXCEPT !.argArray = Append(@, args[pos])])

\* ------------------------------------------------------------------- Init
\* the handler before a request; bp: the decode stream has backpressure, as
\* every TransformStream has until its readable side is pulled
IdleKoa == [pc |-> "idle", bp |-> TRUE, closed |-> FALSE, sent |-> 0, calls |-> 0,
            werr |-> FALSE]

IdleServer == [last |-> <<>>, err |-> FALSE, queue |-> <<>>, busy |-> FALSE, writer |-> <<>>]

\* timeWaitRetryLoop: `let waitTime = 300`, the cap, and the duration that resets it
WaitStart == 300
WaitMax == 60000

\* createRpcClientWebSocket on return: no socket (socketWriter == null), the
\* signal not aborted, the retry loop at its first test, the outbound sink not
\* waiting, no connection opened yet (pipe counts them), no held chunk sent on
\* an 'open' yet (flushed)
IdleSocket ==
    [socket |-> "none", aborted |-> FALSE, pc |-> "loop", waitTime |-> WaitStart,
     long |-> FALSE, slept |-> 0, parked |-> FALSE, pipe |-> 0, flushed |-> FALSE]

\* no frame codec run
IdleCodec == [records |-> <<>>, key |-> NoKey, wire |-> <<>>, last |-> <<>>, out |-> <<>>,
              err |-> FALSE, cut |-> FALSE, chunks |-> <<>>]

\* no message codec run
IdleMsg == [pc |-> "idle", box |-> <<>>, bytes |-> <<>>, back |-> <<>>]

\* no message of the peer's own yet
IdlePeer == [n |-> 0, id |-> 0, type |-> "", role |-> "none", owner |-> 0]

Modes == {c \in [async : BOOLEAN, http : BOOLEAN] : ~(c.async /\ c.http)}

InitWith(modes, keys, scenario) ==
    /\ cfg \in {[async |-> m.async, http |-> m.http, key |-> k, scenario |-> scenario] :
                    m \in modes, k \in keys}
    /\ uniqueKeyID = 0
    /\ callbackFunctionMap = <<>>
    /\ inv = [i \in Invs |-> IdleInv]
    /\ cWriter = <<>>
    /\ cDec = [last |-> <<>>, err |-> FALSE, queue |-> <<>>]
    /\ pktLast = [p \in Pipes |-> <<>>]
    /\ requests = 0
    /\ c2s = [p \in Pipes |-> <<>>]
    /\ s2c = [p \in Pipes |-> <<>>]
    /\ srv = [p \in Pipes |-> IdleServer]
    /\ tasks = <<>>
    /\ faults = 0
    /\ poison = [on |-> FALSE, pending |-> {}]
    /\ ws = IdleSocket
    /\ codec = IdleCodec
    /\ peer = IdlePeer
    /\ dead = {}
    /\ msg = IdleMsg
    /\ derived = (scenario # "key")
    /\ koa = IdleKoa

Init == InitWith(Modes, {"k1"}, "core")

\* ---------------------------------------------------------- client engine
\* the Error apiInvoke throws for a callable that is no AsyncFunction
UsageError == RPCError("Expected an AsyncFunction", "local")

\* a proxy whose catch does not chain the error it caught
ProxyCatchNoCause(error) ==
    [message |-> error.message, stack |-> "local",
     cause |-> [message |-> "", stack |-> ""]]

\* the catch of createRPCProxy's apply: what the caller of rpc.fn(...) catches
\* is new RPCError(error.message, null, { cause: error }), with a stack of its own
ProxyCatch(error) == [message |-> error.message, stack |-> "local", cause |-> error]

\* apiInvoke, up to its first await: the registrations and writer.write(CALL),
\* or the throw for a callable that is no AsyncFunction
ApiInvoke(i) ==
    /\ inv[i].pc = "idle"
    /\ \A j \in Invs : j < i => inv[j].pc # "idle"
    /\ \E shape \in Shapes(i) :
        LET id == uniqueKeyID
            st == registerArgs(i, shape.args, 1,
                    [id |-> NextKey(id),
                     map |-> MapSet(callbackFunctionMap, id, Waiter(i)),
                     keys |-> <<>>,
                     argArray |-> << <<"val", shape.fn>> >>,
                     thrown |-> FALSE])
            box == [id |-> id, type |-> RPC_TYPE_CALL, data |-> buildRpcItemData(st.argArray)]
            started == [IdleInv EXCEPT !.fn = shape.fn, !.args = shape.args, !.id = id,
                                       !.keys = st.keys, !.promise = "pending",
                                       !.prior = {j \in Invs : inv[j].promise = "rejected"},
                                       !.early = ~derived]
        IN  /\ uniqueKeyID' = st.id
            /\ callbackFunctionMap' = st.map
            /\ IF st.thrown
               THEN /\ inv' = [inv EXCEPT ![i] = [started EXCEPT !.pc = "done", !.outcome = "usage",
                                                         !.caught = ProxyCatch(UsageError)]]
                    /\ cWriter' = cWriter
               ELSE /\ inv' = [inv EXCEPT ![i] = [started EXCEPT !.pc = "write"]]
                    /\ cWriter' = Append(cWriter, [bytes |-> buildRpcData(box), inv |-> i])
    /\ UNCHANGED << cfg, ws, codec, cDec, pktLast, requests, c2s, s2c, srv, tasks, faults, poison, peer, dead, msg, derived, koa >>

\* the pipe the carrier sends the next outbound chunk on
OutPipe == IF cfg.http THEN requests + 1 ELSE 1

\* createEncodeStream transform of the client, and the carrier's sink: the head
\* record leaves as one frame, and its writer.write() resolves
\* A TransformStream calls transform() only after the promise of start() has
\* settled; start() of the encode stream awaits the derived key.
StartedAlways ==
    TRUE

Started ==
    derived

\* key and iv of the encode stream: unset until start() has assigned them.
EncodeKey ==
    IF derived THEN cfg.key ELSE NoKey

\* buildKeyIv settles: start() assigns key and iv.
KeyDerived ==
    /\ ~derived
    /\ derived' = TRUE
    /\ UNCHANGED << cfg, ws, codec, clientVars, c2s, s2c, srv, tasks, faults, poison, peer,
                    dead, msg, koa >>

ClientEncode ==
    /\ cWriter # <<>>
    /\ Started
    /\ LET h == Head(cWriter)
       IN  /\ c2s' = [c2s EXCEPT ![OutPipe] = Append(@, buildBufferData(<<h.bytes>>, EncodeKey))]
           /\ inv' = [inv EXCEPT ![h.inv].pc = "wait"]
    /\ cWriter' = Tail(cWriter)
    /\ requests' = IF cfg.http THEN requests + 1 ELSE requests
    /\ UNCHANGED << cfg, ws, codec, uniqueKeyID, callbackFunctionMap, cDec, pktLast, s2c, srv, tasks,
                    faults, poison, peer, dead, msg, derived, koa >>

\* an apiInvoke without the finally
FinallyNothing(map, keys) == map

\* the finally of apiInvoke: for (const key of keys) callbackFunctionMap.delete(key)
Finally(map, keys) == MapDelete(map, Range(keys))

\* apiInvoke after `await promise.promise`: the finally, then the proxy's apply
\* returns the value or catches the rejection, and the caller sees it
ApiInvokeReturn(i) ==
    /\ inv[i].pc = "wait"
    /\ inv[i].promise \in {"resolved", "rejected"}
    /\ callbackFunctionMap' = Finally(callbackFunctionMap, inv[i].keys)
    /\ inv' = [inv EXCEPT ![i].pc = "done", ![i].outcome = inv[i].promise,
                          ![i].caught = IF inv[i].promise = "rejected"
                                        THEN ProxyCatch(inv[i].value) ELSE @]
    /\ UNCHANGED << cfg, ws, codec, uniqueKeyID, cWriter, cDec, pktLast, requests, c2s, s2c, srv, tasks,
                    faults, poison, peer, dead, msg, derived, koa >>

\* a continuation of apiInvoke is queued as a microtask: it runs before the
\* inbound sink is handed its next record
MicrotaskPending ==
    \E i \in Invs : inv[i].pc = "wait" /\ inv[i].promise \in {"resolved", "rejected"}

\* a reject that leaves the table as it is
rejectNoClear(cs, error) == [RejectAll(cs, error) EXCEPT !.map = cs.map]

\* helper.reject(error)
reject(cs, error) == RejectAll(cs, error)

\* a sink that awaits the promise of the callable it applied
CallbackHoldsRunning == \E i \in Invs : inv[i].running > 0

\* `o.callback.apply(o, args)` is not awaited: the sink's write() returns, and
\* no callable that is still running holds the next record back
CallbackHolds == FALSE

\* a callable the sink applied finishes: its promise settles, and nobody waits
\* for it
CallableSettle(i) ==
    /\ inv[i].running > 0
    /\ inv' = [inv EXCEPT ![i].running = @ - 1]
    /\ UNCHANGED << cfg, ws, codec, uniqueKeyID, callbackFunctionMap, cWriter, cDec, pktLast,
                    requests, c2s, s2c, srv, tasks, faults, poison, peer, dead, msg, derived, koa >>

\* an HTTP client that feeds the chunks of a response body to the engine as
\* they come
PacketsNone(p, chunk) == [out |-> chunk, last |-> pktLast[p]]

\* A chunk arrives on the client's inbound side from pipe p.  The HTTP client
\* passes it through the response's processPackets first: [out, last]
Packets(p, chunk) ==
    IF cfg.http THEN processPackets(pktLast[p], chunk)
    ELSE [out |-> chunk, last |-> pktLast[p]]

\* writer.write(pp.out) on the decode stream, d what its transform makes of
\* it: the transform enqueues the records on decode.readable and the sink,
\* which waits for them, is handed the first; a failed decrypt errors the
\* stream, and so does every later write.  Only the HTTP client catches that
\* rejection, with helper.reject.  The result is [map, inv, dec].
Inbound(pp, d) ==
    LET cs == [map |-> callbackFunctionMap, inv |-> inv]
    IN  IF pp.out = <<>> THEN [map |-> cs.map, inv |-> cs.inv, dec |-> cDec]
        ELSE IF cDec.err \/ ~d.ok
        THEN LET failed == IF cfg.http
                           THEN reject(cs, RPCError("decode stream errored", "local"))
                           ELSE cs
             IN  [map |-> failed.map, inv |-> failed.inv, dec |-> [cDec EXCEPT !.err = TRUE]]
        ELSE IF d.queue = <<>>
        THEN [map |-> cs.map, inv |-> cs.inv, dec |-> [cDec EXCEPT !.last = d.last]]
        ELSE LET sunk == SinkWrite(cs, Head(d.queue))
             IN  [map |-> sunk.map, inv |-> sunk.inv,
                  dec |-> [cDec EXCEPT !.last = d.last, !.queue = Tail(d.queue)]]

\* the inbound side of the client is handed a chunk on pipe p
Deliver(p, chunk) ==
    \E pp \in {Packets(p, chunk)} :
    \E d \in {DecodeTransform(cDec.last, pp.out, cfg.key)} :
    \E r \in {Inbound(pp, d)} :
        /\ callbackFunctionMap' = r.map
        /\ inv' = r.inv
        /\ cDec' = r.dec
        /\ pktLast' = [pktLast EXCEPT ![p] = pp.last]

\* the carrier hands the client the next chunk of pipe p: the decode stream
\* takes it when the sink has taken every record decoded before
ClientRecv(p) ==
    /\ s2c[p] # <<>>
    /\ p \notin dead
    /\ cDec.queue = <<>>
    /\ ~MicrotaskPending
    /\ ~CallbackHolds
    /\ \E chunk \in {Head(s2c[p])} : Deliver(p, chunk)
    /\ s2c' = [s2c EXCEPT ![p] = Tail(@)]
    /\ UNCHANGED << cfg, ws, codec, uniqueKeyID, cWriter, requests, c2s, srv, tasks, faults, poison, peer, dead, msg, derived, koa >>

\* the inbound sink's write(buffer) on the next record of a chunk that held several
ClientSink ==
    /\ cDec.queue # <<>>
    /\ ~MicrotaskPending
    /\ ~CallbackHolds
    /\ LET r == SinkWrite([map |-> callbackFunctionMap, inv |-> inv], Head(cDec.queue))
       IN  /\ callbackFunctionMap' = r.map
           /\ inv' = r.inv
    /\ cDec' = [cDec EXCEPT !.queue = Tail(@)]
    /\ UNCHANGED << cfg, ws, codec, uniqueKeyID, cWriter, pktLast, requests, c2s, s2c, srv, tasks,
                    faults, poison, peer, dead, msg, derived, koa >>

\* ---------------------------------------------------------- server engine
\* the procedures of the extension (those of the tests)
Extension == {"hello", "callback", "throwError", "longTimeBlock", "echo", "void"}

\* the value a parameter list starts with
FirstValue(params) ==
    IF Len(params) >= 1 /\ params[1][1] = "val" THEN params[1][2] ELSE 0

\* what a procedure ends with: its return value, or the error it throws
ProcResult(fn, params) ==
    CASE fn = "hello" -> [throws |-> FALSE, data |-> <<"hello", FirstValue(params)>>]
      [] fn = "callback" -> [throws |-> FALSE, data |-> <<"hello callback", FirstValue(params)>>]
      [] fn = "longTimeBlock" -> [throws |-> FALSE, data |-> <<"finished">>]
      [] fn = "echo" -> [throws |-> FALSE, data |-> params[1][2]]
      [] fn = "void" -> [throws |-> FALSE, data |-> Undefined]
      [] OTHER -> [throws |-> TRUE, data |-> RPCError("boom", "at throwError")]

\* a server that answers every call with the id 0 a fresh dataId holds
ResultBoxNoId(id, result) ==
    [id |-> 0, type |-> IF result.throws THEN RPC_TYPE_ERROR ELSE RPC_TYPE_RETURN,
     data |-> result.data]

\* a server for which a procedure that returns nothing returned null
ResultBoxNull(id, result) ==
    [id |-> id, type |-> IF result.throws THEN RPC_TYPE_ERROR ELSE RPC_TYPE_RETURN,
     data |-> IF result.data = Undefined THEN Null ELSE result.data]

\* the box rpcRunServerDecodeBuffer ends with
ResultBox(id, result) ==
    [id |-> id, type |-> IF result.throws THEN RPC_TYPE_ERROR ELSE RPC_TYPE_RETURN,
     data |-> result.data]

TypeErrorResult == [throws |-> TRUE, data |-> RPCError("TypeError", "at rpcRunServerDecodeBuffer")]

\* param.context of the helper of pipe p: the Koa router makes a helper per
\* request and supplies the request's ctx, the other carriers supply none
Context(p) == IF cfg.http THEN p ELSE 0

\* a context slot every enterWith overwrites for every reader
getStoreShared(t) == tasks[Len(tasks)].store

\* extension.asyncLocalStorage.getStore() in the procedure of task t: the store
\* the sink's write entered before it started rpcRunServerDecodeBuffer
getStore(t) == tasks[t].store

\* a server that takes the items of a CALL only
HasItemsCall(type) == type = RPC_TYPE_CALL

\* `items.at(0).data` names a procedure when o.data is a list of items: it is
\* for the types parseRpcData remaps, and the type is looked at nowhere else
HasItems(type) == IsArgList(type)

\* a server that does not answer a call of a procedure it does not have
NoProcedureSilent(task) == [task |-> task, written |-> <<>>]

\* `extension[fnName](...params)` with no such procedure: calling undefined
\* throws a TypeError inside the try, and the catch makes the ERROR box of the
\* call, which is written
NoProcedure(task) ==
    [task |-> task, written |-> << buildRpcData(ResultBox(task.id, TypeErrorResult)) >>]

\* rpcRunServerDecodeBuffer up to its first await, on a decoded record:
\* [task, written]; written is the terminal record when the try block threw
Dispatch(p, buffer) ==
    LET o == parseRpcData(buffer)
        items == o.data
        task == [id |-> 0, pipe |-> p, fn |-> "", params |-> <<>>, pc |-> "retwait", k |-> 0,
                 store |-> Context(p), seen |-> {}, readAt |-> 0,
                 call |-> o.ok /\ o.type = RPC_TYPE_CALL, calls |-> <<>>]
        failed(t) == [task |-> t,
                      written |-> << buildRpcData(ResultBox(t.id, TypeErrorResult)) >>]
    IN  IF ~o.ok THEN failed(task)
        ELSE IF ~HasItems(o.type) \/ Len(items) = 0
        THEN failed([task EXCEPT !.id = o.id])
        ELSE LET fnName == items[1].data
                 params == [j \in 1..(Len(items) - 1) |->
                              IF items[j + 1].type = RPC_DATA_ARG_TYPE_FUNCTION
                              THEN <<"fn", items[j + 1].data>>
                              ELSE <<"val", items[j + 1].data>>]
                 called == [task EXCEPT !.id = o.id, !.fn = fnName, !.params = params]
             IN  IF fnName \notin Extension
                 THEN NoProcedure(called)
                 ELSE [task |-> [called EXCEPT !.pc = "run"], written |-> <<>>]

\* a server whose sink awaits no call in any mode
SinkAwaitsNever == FALSE

\* a server whose sink awaits each call in every mode
SinkAwaitsAlways == TRUE

\* param.async: whether the sink's write() awaits rpcRunServerDecodeBuffer
SinkAwaits == ~cfg.async

\* The sink of server pipe p takes the next record: a record decode.readable
\* holds, or else the decode transform takes the next chunk and the sink the
\* first record of it.  Its write(buffer): sequential mode awaits the whole of
\* rpcRunServerDecodeBuffer, concurrent mode does not.  A failed decrypt errors
\* the pipeline.
ServerDispatch(p) ==
    /\ ~srv[p].busy
    /\ srv[p].queue # <<>> \/ c2s[p] # <<>>
    /\ \E pull \in {srv[p].queue = <<>>} :
       \E d \in {IF pull THEN DecodeTransform(srv[p].last, Head(c2s[p]), cfg.key)
                 ELSE [ok |-> TRUE, queue |-> srv[p].queue, last |-> srv[p].last]} :
        /\ c2s' = IF pull THEN [c2s EXCEPT ![p] = Tail(@)] ELSE c2s
        /\ IF pull /\ (srv[p].err \/ ~d.ok)
           THEN /\ srv' = [srv EXCEPT ![p].err = TRUE]
                /\ tasks' = tasks
           ELSE IF d.queue = <<>>
           THEN /\ srv' = [srv EXCEPT ![p].last = d.last]
                /\ tasks' = tasks
           ELSE \E r \in {Dispatch(p, Head(d.queue))} :
                    /\ tasks' = Append(tasks, r.task)
                    /\ srv' = [srv EXCEPT
                                ![p].last = d.last,
                                ![p].queue = Tail(d.queue),
                                ![p].busy = SinkAwaits,
                                ![p].writer = @ \o [j \in DOMAIN r.written |->
                                    [bytes |-> r.written[j], task |-> Len(tasks) + 1,
                                     kind |-> "ret", awaited |-> TRUE, proxy |-> 0, n |-> 0]]]
    /\ UNCHANGED << cfg, ws, codec, clientVars, s2c, faults, poison, peer, dead, msg, derived, koa >>

\* a writer whose latest record overtakes the record queued last before it
WriterWriteSwap(queue, item) ==
    IF queue = <<>> THEN <<item>>
    ELSE SubSeq(queue, 1, Len(queue) - 1) \o <<item, queue[Len(queue)]>>

\* a writer whose latest record overtakes the records queued before it
WriterWriteFirst(queue, item) == <<item>> \o queue

\* writer.write(record) on the outbound writer: the record joins the queue
WriterWrite(queue, item) == Append(queue, item)

\* the callback proxies a task was given
Proxies(t) == {j \in DOMAIN tasks[t].params : tasks[t].params[j][1] = "fn"}

\* proxies that share the variable the argument loop ends with
ProxyIdLast(t, j) ==
    tasks[t].params[CHOOSE q \in Proxies(t) : \A r \in Proxies(t) : r <= q][2]

\* `id: p.data` in the proxy made for the parameter at position j: `const p`
\* is the item of that turn of the loop
ProxyId(t, j) == tasks[t].params[j][2]

\* the procedure reads the context slot and invokes a callback proxy, awaiting
\* its promise or not
\* errors as far as they are told apart: the message, and the message of the cause
NoError == [message |-> "", cause |-> ""]
WriteFailure == [message |-> "writable errored", cause |-> ""]

\* a proxy that passes the failure of the write on as it is
ProxyErrorBare(error) == error

\* `throw new Error('rpc callback writer.write()', { cause: error })`
ProxyError(error) == [message |-> "rpc callback writer.write()", cause |-> error.message]

\* a proxy that does not await the write
ProxyPromiseNoAwait == "resolved"

\* the promise of a proxy at `await writer.write(buildRpcData(box))`
ProxyPromise == "pending"

\* the outbound stream of the pipeline has been errored: writer.write() rejects
WriterErrored(p) == koa.werr /\ p = 1

\* the procedure calls a proxy.  An awaited proxy that rejects ends the
\* procedure (no procedure of the extension catches), and the ERROR that
\* rpcRunServerDecodeBuffer then writes is rejected as well.
ProcCallback(t) ==
    /\ tasks[t].pc = "run"
    /\ tasks[t].k < MaxCb
    /\ \E j \in Proxies(t), awaited \in BOOLEAN :
        LET box == [id |-> ProxyId(t, j), type |-> RPC_TYPE_CALLBACK,
                    data |-> buildRpcItemData(<< <<"val", tasks[t].k + 1>> >>)]
        IN  IF WriterErrored(tasks[t].pipe)
            THEN /\ srv' = srv
                 /\ tasks' = [tasks EXCEPT
                        ![t].k = @ + 1,
                        ![t].pc = IF awaited THEN "failed" ELSE "run",
                        ![t].calls = Append(@, [promise |-> "rejected",
                                                error |-> ProxyError(WriteFailure)]),
                        ![t].seen = @ \cup {getStore(t)},
                        ![t].readAt = Len(tasks)]
            ELSE /\ srv' = [srv EXCEPT ![tasks[t].pipe].writer =
                          WriterWrite(@, [bytes |-> buildRpcData(box), task |-> t,
                                          kind |-> "cb", awaited |-> awaited, proxy |-> j,
                                          n |-> tasks[t].k + 1])]
                 /\ tasks' = [tasks EXCEPT
                        ![t].k = @ + 1,
                        ![t].pc = IF awaited THEN "cbwait" ELSE "run",
                        ![t].calls = Append(@, [promise |-> ProxyPromise, error |-> NoError]),
                        ![t].seen = @ \cup {getStore(t)},
                        ![t].readAt = Len(tasks)]
    /\ UNCHANGED << cfg, ws, codec, clientVars, c2s, s2c, faults, poison, peer, dead, msg, derived, koa >>

ProcReturn(t) ==
    /\ tasks[t].pc = "run"
    /\ LET box == ResultBox(tasks[t].id, ProcResult(tasks[t].fn, tasks[t].params))
       IN  srv' = IF WriterErrored(tasks[t].pipe) THEN srv
                  ELSE [srv EXCEPT ![tasks[t].pipe].writer =
                          WriterWrite(@, [bytes |-> buildRpcData(box), task |-> t, kind |-> "ret",
                                          awaited |-> TRUE, proxy |-> 0, n |-> 0])]
    /\ tasks' = [tasks EXCEPT ![t].pc = IF WriterErrored(tasks[t].pipe) THEN "failed"
                                        ELSE "retwait",
                              ![t].seen = @ \cup {getStore(t)},
                              ![t].readAt = Len(tasks)]
    /\ UNCHANGED << cfg, ws, codec, clientVars, c2s, s2c, faults, poison, peer, dead, msg, derived, koa >>

\* createEncodeStream transform of server pipe p, and the carrier's sink: the
\* head record leaves as one frame, and its writer.write() resolves.  An HTTP
\* response body is a byte stream: the frame may reach the client in one chunk
\* with the frame before it.
ServerEncode(p) ==
    /\ srv[p].writer # <<>>
    /\ LET h == Head(srv[p].writer)
           frame == buildBufferData(<<h.bytes>>, cfg.key)
       IN  /\ \E coalesce \in (IF cfg.http /\ s2c[p] # <<>> THEN BOOLEAN ELSE {FALSE}) :
                s2c' = [s2c EXCEPT ![p] = IF coalesce
                                          THEN [@ EXCEPT ![Len(@)] = @ \o frame]
                                          ELSE Append(@, frame)]
           /\ tasks' = [tasks EXCEPT
                          ![h.task].pc = IF h.kind = "ret" THEN "done"
                                         ELSE IF h.awaited THEN "run" ELSE @,
                          ![h.task].calls = IF h.kind = "cb"
                                            THEN [@ EXCEPT ![h.n].promise = "resolved"]
                                            ELSE @]
           /\ srv' = [srv EXCEPT ![p].writer = Tail(@),
                                 ![p].busy = IF h.kind = "ret" THEN FALSE ELSE @]
    /\ UNCHANGED << cfg, ws, codec, clientVars, c2s, faults, poison, peer, dead, msg, derived, koa >>

\* ----------------------------------------------------------------- carrier
\* the pipes the carrier has opened
OpenPipes == IF cfg.http THEN 1..requests ELSE {1}

\* the carrier fails: helper.reject(error)
CarrierReject ==
    /\ faults < MaxFaults
    /\ faults' = faults + 1
    /\ LET r == reject([map |-> callbackFunctionMap, inv |-> inv],
                       RPCError("carrier", "local"))
       IN  /\ callbackFunctionMap' = r.map
           /\ inv' = r.inv
    /\ UNCHANGED << cfg, ws, codec, uniqueKeyID, cWriter, cDec, pktLast, requests, c2s, s2c, srv, tasks,
                    poison, peer, dead, msg, derived, koa >>

\* what a broken peer may send: a frame with a wrong magic value, a frame
\* encrypted under another key, a frame whose record does not unpack
JunkKinds == {"magic", "cipher", "record"}
JunkChunk(kind) ==
    CASE kind = "magic" -> WriteUInt32LE(1) \o <<0, 0, 0, 0>> \o << Cell("junk") >>
      [] kind = "cipher" -> buildBufferData(<< << Cell("junk") >> >>, "k2")
      [] OTHER -> buildBufferData(<< << Cell("junk") >> >>, cfg.key)

\* frames that are bad for the frame codec: wrong magic, failed decryption
BadFrame(kind) == kind = "magic" \/ (kind = "cipher" /\ cfg.key # NoKey)

Pending(i) == inv[i].pc \in {"write", "wait"} /\ inv[i].promise = "pending"

JunkOf(p, kind) ==
    /\ faults < MaxFaults
    /\ p \in OpenPipes
    /\ cDec.queue = <<>>
    /\ ~MicrotaskPending
    /\ faults' = faults + 1
    /\ \E chunk \in {JunkChunk(kind)} : Deliver(p, chunk)
    /\ poison' = IF BadFrame(kind) /\ ~poison.on
                 THEN [on |-> TRUE, pending |-> {i \in Invs : Pending(i)}]
                 ELSE poison
    /\ UNCHANGED << cfg, ws, codec, peer, dead, msg, derived, koa, uniqueKeyID, cWriter, requests, c2s,
                    s2c, srv, tasks >>

CarrierJunk(p) == \E kind \in JunkKinds : JunkOf(p, kind)

\* -------------------------------------------------------------------- Next
Engine ==
    \/ \E i \in Invs : ApiInvoke(i)
    \/ ClientEncode
    \/ \E i \in Invs : ApiInvokeReturn(i)
    \/ \E p \in Pipes : ClientRecv(p)
    \/ ClientSink
    \/ \E p \in Pipes : ServerDispatch(p)
    \/ \E t \in DOMAIN tasks : ProcCallback(t)
    \/ \E t \in DOMAIN tasks : ProcReturn(t)
    \/ \E p \in Pipes : ServerEncode(p)

Next == Engine \/ CarrierReject

Spec == Init /\ [][Next]_vars

\* the same with a peer that may send junk, for either key setting
InitJunk == InitWith({m \in Modes : ~m.async}, Keys, "junk")
NextJunk == Next \/ \E p \in Pipes : CarrierJunk(p)
SpecJunk == InitJunk /\ [][NextJunk]_vars

\* a peer that sends messages of its own: any of the three types the client's
\* inbound sink tells apart, under an id the client has issued or is about to
PeerTypes == {RPC_TYPE_RETURN, RPC_TYPE_ERROR, RPC_TYPE_CALLBACK}
PeerBox(id, type) ==
    [id |-> id, type |-> type,
     data |-> CASE type = RPC_TYPE_RETURN -> <<"peer">>
                [] type = RPC_TYPE_ERROR -> RPCError("peer", "at peer")
                [] OTHER -> buildRpcItemData(<< <<"val", "a">>, <<"val", "b">> >>)]

\* callbackFunctionMap.get(data.id): what the sink finds under an id
Role(map, id) ==
    IF id \notin DOMAIN map THEN "unknown"
    ELSE IF HasPromise(map[id]) THEN "waiter" ELSE "slot"
Owner(map, id) == IF id \in DOMAIN map THEN map[id].inv ELSE 0

\* the message reaches the inbound sink of the client as one frame on pipe p
PeerMessageOf(p, id, type) ==
    /\ faults < MaxFaults
    /\ p \in OpenPipes
    /\ cDec.queue = <<>>
    /\ ~cDec.err
    /\ ~MicrotaskPending
    /\ ~CallbackHolds
    /\ faults' = faults + 1
    /\ \E chunk \in {buildBufferData(<< buildRpcData(PeerBox(id, type)) >>, cfg.key)} :
        Deliver(p, chunk)
    /\ peer' = [n |-> peer.n + 1, id |-> id, type |-> type,
                role |-> Role(callbackFunctionMap, id),
                owner |-> Owner(callbackFunctionMap, id)]
    /\ UNCHANGED << cfg, ws, codec, poison, dead, msg, derived, koa, uniqueKeyID, cWriter, requests, c2s,
                    s2c, srv, tasks >>

PeerMessage(p) == \E id \in 0..uniqueKeyID, type \in PeerTypes : PeerMessageOf(p, id, type)

InitPeer == InitWith({m \in Modes : ~m.async /\ ~m.http}, {"k1"}, "peer")
\* the engine on a duplex carrier: a chunk is one frame, and the sink has
\* taken its record when the next chunk arrives
EngineDuplex ==
    \/ \E i \in Invs : ApiInvoke(i)
    \/ ClientEncode
    \/ \E i \in Invs : ApiInvokeReturn(i)
    \/ \E p \in Pipes : ClientRecv(p)
    \/ \E p \in Pipes : ServerDispatch(p)
    \/ \E t \in DOMAIN tasks : ProcCallback(t)
    \/ \E t \in DOMAIN tasks : ProcReturn(t)
    \/ \E p \in Pipes : ServerEncode(p)

NextPeer ==
    \/ EngineDuplex
    \/ \E p \in Pipes : PeerMessage(p)
    \/ \E i \in Invs : CallableSettle(i)
SpecPeer == InitPeer /\ [][NextPeer]_vars

\* a client just constructed with an rpcKey: buildKeyIv is still deriving
InitKey == InitWith({m \in Modes : ~m.http}, {"k1"}, "key")
NextDerive ==
    \/ EngineDuplex
    \/ KeyDerived
SpecKey == InitKey /\ [][NextDerive]_vars

\* a client side that sends the server a frame whose record does not unpack
ServerJunk(p) ==
    /\ faults < MaxFaults
    /\ p \in OpenPipes
    /\ faults' = faults + 1
    /\ c2s' = [c2s EXCEPT ![p] = Append(@, buildBufferData(<< << Cell("junk") >> >>, cfg.key))]
    /\ UNCHANGED << cfg, ws, codec, clientVars, s2c, srv, tasks, poison, peer, dead, msg, derived, koa >>

NextServerJunk == EngineDuplex \/ \E p \in Pipes : ServerJunk(p)
SpecServerJunk == InitPeer /\ [][NextServerJunk]_vars

\* calls that pass one callable or two
InitCb == InitWith(Modes, {"k1"}, "cb")
SpecCb == InitCb /\ [][Engine]_vars

\* a client side that sends the server a CALLBACK message: its first item
\* holds the name of a procedure, its second a value
ServerPeerBox(id) ==
    [id |-> id, type |-> RPC_TYPE_CALLBACK,
     data |-> buildRpcItemData(<< <<"val", "hello">>, <<"val", "peer">> >>)]

ServerPeerOf(p, id) ==
    /\ faults < MaxFaults
    /\ p \in OpenPipes
    /\ faults' = faults + 1
    /\ c2s' = [c2s EXCEPT ![p] =
                Append(@, buildBufferData(<< buildRpcData(ServerPeerBox(id)) >>, cfg.key))]
    /\ peer' = [n |-> peer.n + 1, id |-> id, type |-> RPC_TYPE_CALLBACK,
                role |-> "server", owner |-> 0]
    /\ UNCHANGED << cfg, ws, codec, clientVars, s2c, srv, tasks, poison, dead, msg, derived, koa >>

ServerPeer(p) == \E id \in 0..uniqueKeyID : ServerPeerOf(p, id)

NextServerPeer == EngineDuplex \/ \E p \in Pipes : ServerPeer(p)
SpecServerPeer == InitPeer /\ [][NextServerPeer]_vars

\* a client side that does not hold the server's rpcKey: it sends a well-formed
\* CALL of hello in a frame whose payload is under another key, or in clear
ForeignKeys == {NoKey, "k2"}

ForeignBox(id) ==
    [id |-> id, type |-> RPC_TYPE_CALL,
     data |-> buildRpcItemData(<< <<"val", "hello">>, <<"val", 0>> >>)]

ForeignFrame(p) ==
    /\ faults < MaxFaults
    /\ p \in OpenPipes
    /\ faults' = faults + 1
    /\ \E key \in ForeignKeys \ {cfg.key} :
        c2s' = [c2s EXCEPT ![p] =
                    Append(@, buildBufferData(<< buildRpcData(ForeignBox(uniqueKeyID)) >>, key))]
    /\ peer' = [n |-> peer.n + 1, id |-> uniqueKeyID, type |-> RPC_TYPE_CALL,
                role |-> "foreign", owner |-> 0]
    /\ UNCHANGED << cfg, ws, codec, clientVars, s2c, srv, tasks, poison, dead, msg, derived, koa >>

NextForeign == EngineDuplex \/ \E p \in Pipes : ForeignFrame(p)
InitForeign == InitWith({m \in Modes : ~m.http}, {"k1"}, "peer")
SpecForeign == InitForeign /\ [][NextForeign]_vars

\* a carrier that does not fail, streams and tasks that are scheduled, and
\* procedures that return, longTimeBlock excepted: it may run for ever
InitLive == InitWith(Modes, {"k1"}, "live")
Returns(t) == t \in DOMAIN tasks /\ tasks[t].fn # "longTimeBlock" /\ ProcReturn(t)
Scheduling ==
    /\ WF_vars(ClientEncode)
    /\ WF_vars(ClientSink)
    /\ \A i \in Invs : WF_vars(ApiInvokeReturn(i))
    /\ \A p \in Pipes : WF_vars(ClientRecv(p))
    /\ \A p \in Pipes : WF_vars(ServerDispatch(p))
    /\ \A p \in Pipes : WF_vars(ServerEncode(p))
    /\ \A t \in 1..MaxInv : WF_vars(Returns(t))
SpecLive == InitLive /\ [][Engine]_vars /\ Scheduling

\* -------------------------------------------------------- WebSocket client
\* a retry loop that keeps its wait after a long connection
RetryResetNever(waitTime, long) == waitTime

\* timeWaitRetryLoop after the callback: a callback that took more than ten
\* seconds resets the wait
RetryReset(waitTime, long) == IF long THEN WaitStart ELSE waitTime

\* timeWaitRetryLoop after the sleep: waitTime *= 2, capped
RetryNext(waitTime) == IF waitTime * 2 > WaitMax THEN WaitMax ELSE waitTime * 2

\* a loop that does not look at the signal
LoopEndsNever == FALSE

\* the condition of `while (!signal.aborted)` is false
LoopEnds == ws.aborted

\* timeWaitRetryLoop at `while (!signal.aborted)`: the loop ends, or the
\* callback runs createWebSocket up to `await promise.promise`
WsConnect ==
    /\ cfg.scenario = "ws"
    /\ ws.pc = "loop"
    /\ ws' = IF LoopEnds THEN [ws EXCEPT !.pc = "stopped"]
             ELSE [ws EXCEPT !.pc = "await", !.socket = "connecting"]
    /\ UNCHANGED << cfg, codec, clientVars, c2s, s2c, srv, tasks, faults, poison, peer, dead, msg, derived, koa >>

\* a sink that never waits for a socket
SinkHoldsNever == FALSE

\* the outbound sink at `while (!param.signal.aborted && socketWriter == null)`
SinkHolds == ~ws.aborted /\ ws.socket # "open"

\* the outbound sink past its loop, the client being as in w: the chunk of the
\* head record goes to the socket, or after an abort nowhere, and the write
\* returns
SinkPass(w) ==
    /\ c2s' = IF w.aborted THEN c2s
              ELSE [c2s EXCEPT ![w.pipe] =
                        Append(@, buildBufferData(<<Head(cWriter).bytes>>, cfg.key))]
    /\ inv' = [inv EXCEPT ![Head(cWriter).inv].pc = "wait"]
    /\ cWriter' = Tail(cWriter)

\* the 'open' event: socketWriter is set, and signal.resolve() lets a waiting
\* sink go on with its chunk before any other event.  The server makes a
\* helper of its own for the connection.
WsOpen ==
    /\ ws.pc = "await"
    /\ ws.socket = "connecting"
    /\ ~ws.aborted
    /\ ws.pipe < MaxInv
    /\ \E w \in {[ws EXCEPT !.socket = "open", !.parked = FALSE, !.pipe = @ + 1,
                           !.flushed = @ \/ ws.parked]} :
        /\ ws' = w
        /\ IF ws.parked THEN SinkPass(w) ELSE UNCHANGED << cWriter, inv, c2s >>
    /\ UNCHANGED << cfg, codec, uniqueKeyID, callbackFunctionMap, cDec, pktLast, requests,
                    s2c, srv, tasks, faults, poison, peer, dead, msg, derived, koa >>

\* the 'error' or 'close' event resolves the promise createWebSocket awaits:
\* socketWriter = null, signal.resolve() and a new signal, on which a waiting
\* sink waits again unless the signal is aborted; the callback returns, the
\* loop resets the wait after a long connection and sleeps
WsClose ==
    /\ ws.pc = "await"
    /\ \E long \in BOOLEAN :
       \E w \in {[ws EXCEPT !.socket = "none", !.pc = "sleep", !.long = long,
                           !.waitTime = RetryReset(@, long)]} :
        IF ws.parked /\ ws.aborted
        THEN ws' = [w EXCEPT !.parked = FALSE] /\ SinkPass(w)
        ELSE ws' = w /\ UNCHANGED << cWriter, inv, c2s >>
    /\ UNCHANGED << cfg, codec, uniqueKeyID, callbackFunctionMap, cDec, pktLast, requests,
                    s2c, srv, tasks, faults, poison, peer, dead, msg, derived, koa >>

\* `await sleep(waitTime)` is over: the wait doubles up to the cap
RetrySleep ==
    /\ ws.pc = "sleep"
    /\ ws' = [ws EXCEPT !.pc = "loop", !.slept = ws.waitTime,
                        !.waitTime = RetryNext(@)]
    /\ UNCHANGED << cfg, codec, clientVars, c2s, s2c, srv, tasks, faults, poison, peer, dead, msg, derived, koa >>

\* param.signal is aborted; the abort listener of a running createWebSocket
\* calls ws.close(), and the 'close' event follows
WsAbort ==
    /\ cfg.scenario = "ws"
    /\ ~ws.aborted
    /\ ws' = [ws EXCEPT !.aborted = TRUE]
    /\ UNCHANGED << cfg, codec, clientVars, c2s, s2c, srv, tasks, faults, poison, peer, dead, msg, derived, koa >>

\* the outbound sink's write(chunk) on the frame of the head record: it waits
\* on signal.promise while there is no socket, or else hands the chunk to the
\* socket, or after an abort returns without sending it
WsSinkWrite ==
    /\ cfg.scenario = "ws"
    /\ cWriter # <<>>
    /\ ~ws.parked
    /\ IF SinkHolds
       THEN /\ ws' = [ws EXCEPT !.parked = TRUE]
            /\ UNCHANGED << cWriter, inv, c2s >>
       ELSE /\ ws' = ws
            /\ SinkPass(ws)
    /\ UNCHANGED << cfg, codec, uniqueKeyID, callbackFunctionMap, cDec, pktLast, requests,
                    s2c, srv, tasks, faults, poison, peer, dead, msg, derived, koa >>

\* the 'message' listener of the open socket writes the chunk to the helper
WsMessage == ws.socket = "open" /\ ClientRecv(ws.pipe)

InitWs == InitWith({m \in Modes : ~m.async /\ ~m.http}, {"k1"}, "ws")
NextWs ==
    \/ \E i \in Invs : ApiInvoke(i)
    \/ \E i \in Invs : ApiInvokeReturn(i)
    \/ WsSinkWrite
    \/ WsMessage
    \/ \E p \in Pipes : ServerDispatch(p)
    \/ \E t \in DOMAIN tasks : ProcReturn(t)
    \/ \E p \in Pipes : ServerEncode(p)
    \/ WsConnect
    \/ WsOpen
    \/ WsClose
    \/ RetrySleep
    \/ WsAbort

\* the stream machinery runs the sink's write when a chunk is ready
SpecWs == InitWs /\ [][NextWs]_vars /\ WF_vars(WsSinkWrite)

\* the loop is running code, the timer of sleep() fires, and the 'close' event
\* follows the ws.close() of the abort listener
SpecWsAbort ==
    /\ InitWs /\ [][NextWs]_vars
    /\ WF_vars(WsSinkWrite)
    /\ WF_vars(WsConnect)
    /\ WF_vars(RetrySleep)
    /\ WF_vars(ws.aborted /\ WsClose)

\* ------------------------------------------------------------- HTTP client
\* a client whose fetch chain has no catch
HttpCatchNothing(cs, e) == cs

\* `.catch(e => { helper.reject(e) })` on the fetch promise and on the pipeTo
\* of the response body
HttpCatch(cs, e) == reject(cs, e)

\* what fetch rejects with, what the body stream errors with
FetchError == RPCError("fetch failed", "local")
BodyError == RPCError("body stream errored", "local")

\* the POST of the chunk of request p fails before the server has it: the
\* fetch promise rejects, and nothing of that request arrives any more
HttpPostFail(p) ==
    /\ cfg.http
    /\ faults < MaxFaults
    /\ p \in OpenPipes \ dead
    /\ c2s[p] # <<>>
    /\ ~MicrotaskPending
    /\ faults' = faults + 1
    /\ dead' = dead \cup {p}
    /\ c2s' = [c2s EXCEPT ![p] = <<>>]
    /\ LET r == HttpCatch([map |-> callbackFunctionMap, inv |-> inv], FetchError)
       IN  /\ callbackFunctionMap' = r.map
           /\ inv' = r.inv
    /\ UNCHANGED << cfg, ws, codec, peer, poison, msg, derived, koa, uniqueKeyID, cWriter, cDec, pktLast, requests,
                    s2c, srv, tasks >>

\* the response body of request p errors, or the request is aborted, after the
\* server was given the chunk: the pipeTo of the body rejects, and nothing of
\* that response arrives any more
HttpBodyFail(p) ==
    /\ cfg.http
    /\ faults < MaxFaults
    /\ p \in OpenPipes \ dead
    /\ c2s[p] = <<>>
    /\ cDec.queue = <<>>
    /\ ~MicrotaskPending
    /\ faults' = faults + 1
    /\ dead' = dead \cup {p}
    /\ LET r == HttpCatch([map |-> callbackFunctionMap, inv |-> inv], BodyError)
       IN  /\ callbackFunctionMap' = r.map
           /\ inv' = r.inv
    /\ UNCHANGED << cfg, ws, codec, peer, poison, msg, derived, koa, uniqueKeyID, cWriter, cDec, pktLast, requests,
                    c2s, s2c, srv, tasks >>

InitHttp == InitWith({m \in Modes : m.http}, {"k1"}, "peer")
NextHttp ==
    \/ Engine
    \/ \E p \in Pipes : HttpPostFail(p)
    \/ \E p \in Pipes : HttpBodyFail(p)
SpecHttp == InitHttp /\ [][NextHttp]_vars

\* the network cuts the next chunk of the response body of request p in two,
\* at any byte
HttpFragment(p) ==
    /\ cfg.http
    /\ faults < MaxFaults
    /\ s2c[p] # <<>>
    /\ faults' = faults + 1
    /\ \E n \in 1..(Len(Head(s2c[p])) - 1) :
        s2c' = [s2c EXCEPT ![p] = << SubSeq(Head(@), 1, n), SubSeq(Head(@), n + 1, Len(Head(@))) >>
                                     \o Tail(@)]
    /\ UNCHANGED << cfg, ws, codec, clientVars, c2s, srv, tasks, poison, peer, dead, msg, derived, koa >>

InitFrag == InitWith({m \in Modes : m.http}, {"k1"}, "frag")
NextFrag == Engine \/ \E p \in Pipes : HttpFragment(p)
SpecFrag == InitFrag /\ [][NextFrag]_vars

\* -------------------------------------------------------- frame codec runs
\* the payload records of a run: up to MaxLen bytes each, up to MaxRecs of them
Bytes == {"a", "b"}
Payloads == UNION {[1..n -> {Cell(b) : b \in Bytes}] : n \in 0..MaxLen}
RecordSeqs == UNION {[1..n -> Payloads] : n \in 0..MaxRecs}

\* buildBufferData(records, key): the records of one run become the bytes on
\* the wire
CodecEncode ==
    /\ cfg.scenario = "codec"
    /\ codec = IdleCodec
    /\ \E records \in RecordSeqs, key \in Keys :
        codec' = [IdleCodec EXCEPT !.records = records, !.key = key,
                                   !.wire = buildBufferData(records, key)]
    /\ UNCHANGED << cfg, ws, clientVars, c2s, s2c, srv, tasks, faults, poison, peer, dead, msg, derived, koa >>

\* the next chunk on the wire, of any length, goes through one transform() of
\* createDecodeStream: the records it completes are enqueued
CodecChunk ==
    /\ codec.wire # <<>>
    /\ ~codec.err
    /\ \E n \in 0..Len(codec.wire) :
       \E d \in {DecodeTransform(codec.last, SubSeq(codec.wire, 1, n), codec.key)} :
        codec' = [codec EXCEPT !.wire = SubSeq(@, n + 1, Len(@)),
                               !.last = d.last,
                               !.out = @ \o d.queue,
                               !.err = ~d.ok,
                               !.cut = @ \/ Len(d.last) \in 1..7]
    /\ UNCHANGED << cfg, ws, clientVars, c2s, s2c, srv, tasks, faults, poison, peer, dead, msg, derived, koa >>

InitCodec == InitWith({m \in Modes : ~m.async /\ ~m.http}, {NoKey}, "codec")
NextCodec == CodecEncode \/ CodecChunk
SpecCodec == InitCodec /\ [][NextCodec]_vars

\* a run whose wire starts with a header that carries another magic value: it
\* announces n payload bytes, m of them follow, and a frame of the codec's own
\* may follow those
BadMagic == <<0, 0, 0, 0>>
CodecJunk ==
    /\ cfg.scenario = "codec"
    /\ codec = IdleCodec
    /\ \E n \in 0..MaxLen, m \in 0..MaxLen, records \in RecordSeqs, key \in Keys :
        /\ m <= n
        /\ Len(records) <= 1
        /\ codec' = [IdleCodec EXCEPT
                        !.key = key,
                        !.wire = WriteUInt32LE(n) \o BadMagic \o [j \in 1..m |-> Cell("junk")]
                                    \o buildBufferData(records, key)]
    /\ UNCHANGED << cfg, ws, clientVars, c2s, s2c, srv, tasks, faults, poison, peer, dead, msg, derived, koa >>

NextCodecJunk == CodecEncode \/ CodecChunk \/ CodecJunk
SpecCodecJunk == InitCodec /\ [][NextCodecJunk]_vars

\* ------------------------------------------------------ message codec runs
\* the messages of a run: an id, one of the four types, and for CALL and
\* CALLBACK a list of up to MaxLen tagged items, for RETURN a value, for ERROR
\* the message and stack of an error
MsgIds == 0..MaxInv
MsgItems ==
    [type : {RPC_DATA_ARG_TYPE_OTHERS, RPC_DATA_ARG_TYPE_FUNCTION}, data : {"hello", "world"}]
MsgLists == UNION {[1..n -> MsgItems] : n \in 0..MaxLen}
MsgBoxes ==
    [id : MsgIds, type : {RPC_TYPE_CALL, RPC_TYPE_CALLBACK}, data : MsgLists]
        \cup [id : MsgIds, type : {RPC_TYPE_RETURN}, data : EchoValues]
        \cup [id : MsgIds, type : {RPC_TYPE_ERROR}, data : {RPCError("boom", "at throwError")}]

\* buildRpcData(box)
MsgBuild ==
    /\ cfg.scenario = "msg"
    /\ msg.pc = "idle"
    /\ \E box \in MsgBoxes :
        msg' = [msg EXCEPT !.pc = "built", !.box = box, !.bytes = buildRpcData(box)]
    /\ UNCHANGED << cfg, ws, codec, clientVars, c2s, s2c, srv, tasks, faults, poison, peer, dead, derived, koa >>

\* parseRpcData(buffer) on what buildRpcData returned
MsgParse ==
    /\ msg.pc = "built"
    /\ msg' = [msg EXCEPT !.pc = "parsed", !.back = parseRpcData(msg.bytes)]
    /\ UNCHANGED << cfg, ws, codec, clientVars, c2s, s2c, srv, tasks, faults, poison, peer, dead, derived, koa >>

InitMsg == InitWith({m \in Modes : ~m.async /\ ~m.http}, {NoKey}, "msg")
NextMsg == MsgBuild \/ MsgParse
SpecMsg == InitMsg /\ [][NextMsg]_vars

\* the next chunk of a response body, of any length, goes through one
\* transform() of processPackets: what it enqueues joins the chunks
PacketsChunk ==
    /\ codec.wire # <<>>
    /\ \E n \in 1..Len(codec.wire) :
       \E pp \in {processPackets(codec.last, SubSeq(codec.wire, 1, n))} :
        codec' = [codec EXCEPT !.wire = SubSeq(@, n + 1, Len(@)),
                               !.last = pp.last,
                               !.chunks = IF pp.out = <<>> THEN @ ELSE Append(@, pp.out),
                               !.cut = @ \/ Len(pp.last) > 0]
    /\ UNCHANGED << cfg, ws, clientVars, c2s, s2c, srv, tasks, faults, poison, peer, dead, msg, derived, koa >>

NextPackets == CodecEncode \/ PacketsChunk
SpecPackets == InitCodec /\ [][NextPackets]_vars

\* ------------------------------------------------------- values there and back
InitEcho == InitWith({m \in Modes : ~m.http}, Keys, "echo")
NextEcho ==
    \/ \E i \in Invs : ApiInvoke(i)
    \/ ClientEncode
    \/ \E i \in Invs : ApiInvokeReturn(i)
    \/ \E p \in Pipes : ClientRecv(p)
    \/ \E p \in Pipes : ServerDispatch(p)
    \/ \E t \in DOMAIN tasks : ProcReturn(t)
    \/ \E p \in Pipes : ServerEncode(p)
SpecEcho == InitEcho /\ [][NextEcho]_vars

\* ------------------------------------------------------------ HTTP server
\* createRpcServerKoaRouter: the handler makes a sequential helper, awaits
\* `a.pipeTo(helper.writable)` on the request body, and only then makes
\* helper.readable the response body.  The helper is pipeline 1: c2s[1] is
\* what of the body is still to be written to the decode stream, srv[1].queue
\* the records in the decode stream's readable side, srv[1].busy the sink's
\* write in flight, srv[1].writer the writes pending on the encode stream,
\* s2c[1] the response body.
\*
\* A TransformStream (default strategies: writable 1, readable 0) has
\* backpressure from its construction and after every enqueue, until its
\* readable side is pulled by a read that finds its queue empty; while it has
\* backpressure a write to it does not reach transform().
MaxChunks == 2

KoaShapes == {"hello", "callback"}

\* the CALL a client sends for its i-th invocation
KoaBox(i, fn) ==
    [id |-> i - 1, type |-> RPC_TYPE_CALL,
     data |-> buildRpcItemData(
                IF fn = "callback"
                THEN << <<"val", fn>>, <<"val", i>>, <<"fn", MaxInv + i>> >>
                ELSE << <<"val", fn>>, <<"val", i>> >>)]

\* a request body: the frames of the calls of the procedures fns names
KoaBody(fns) ==
    buildBufferData([i \in DOMAIN fns |-> buildRpcData(KoaBox(i, fns[i]))], cfg.key)

\* the ways the carrier may deliver bytes in at most n chunks
RECURSIVE Chunkings(_, _)
Chunkings(bytes, n) ==
    IF n <= 1 \/ Len(bytes) <= 1 THEN {<<bytes>>}
    ELSE {<<bytes>>} \cup
         UNION {{<<SubSeq(bytes, 1, c)>> \o rest :
                    rest \in Chunkings(SubSeq(bytes, c + 1, Len(bytes)), n - 1)} :
                c \in 1..(Len(bytes) - 1)}

\* a POST arrives: the handler makes the helper and starts the pipe
KoaPost ==
    /\ cfg.scenario = "koa"
    /\ koa.pc = "idle"
    /\ \E k \in 1..MaxInv : \E fns \in [1..k -> KoaShapes] :
       \E chunks \in Chunkings(KoaBody(fns), MaxChunks) :
        /\ c2s' = [c2s EXCEPT ![1] = chunks]
        /\ koa' = [koa EXCEPT !.pc = "pipe", !.sent = k]
    /\ UNCHANGED << cfg, ws, codec, clientVars, s2c, srv, tasks, faults, poison, peer, dead,
                    msg, derived >>

\* the request pipe writes the next chunk of the body to the decode stream:
\* transform() runs once the stream has no backpressure, and an enqueue
\* brings the backpressure back
KoaDecodeWrite ==
    /\ koa.pc = "pipe"
    /\ c2s[1] # <<>>
    /\ ~koa.bp
    /\ \E d \in {DecodeTransform(srv[1].last, Head(c2s[1]), cfg.key)} :
        /\ srv' = [srv EXCEPT ![1].last = d.last,
                              ![1].queue = @ \o d.queue,
                              ![1].err = @ \/ ~d.ok]
        /\ koa' = [koa EXCEPT !.bp = d.queue # <<>>,
                              !.calls = @ + Len(d.queue)]
    /\ c2s' = [c2s EXCEPT ![1] = Tail(@)]
    /\ UNCHANGED << cfg, ws, codec, clientVars, s2c, tasks, faults, poison, peer, dead, msg,
                    derived >>

\* the pipe from the decode stream to the sink reads when the sink is ready:
\* it hands the next record to the sink's write, which awaits
\* rpcRunServerDecodeBuffer, or its read finds the queue empty and pulls
KoaSinkRead ==
    /\ koa.pc \in {"pipe", "body"}
    /\ ~srv[1].busy
    /\ ~srv[1].err
    /\ IF srv[1].queue # <<>>
       THEN /\ \E r \in {Dispatch(1, Head(srv[1].queue))} :
                /\ tasks' = Append(tasks, r.task)
                /\ srv' = [srv EXCEPT
                            ![1].queue = Tail(@),
                            ![1].busy = SinkAwaits,
                            ![1].writer = @ \o [j \in DOMAIN r.written |->
                                [bytes |-> r.written[j], task |-> Len(tasks) + 1,
                                 kind |-> "ret", awaited |-> TRUE, proxy |-> 0, n |-> 0]]]
            /\ koa' = koa
       ELSE /\ koa.bp
            /\ ~koa.closed
            /\ koa' = [koa EXCEPT !.bp = FALSE]
            /\ UNCHANGED << srv, tasks >>
    /\ UNCHANGED << cfg, ws, codec, clientVars, c2s, s2c, faults, poison, peer, dead, msg,
                    derived >>

\* the body has ended and its last chunk is written: the pipe closes the
\* decode stream, `await a.pipeTo(helper.writable)` returns, and the handler
\* sets the status and makes helper.readable the body of the response
KoaPipeEnd ==
    /\ koa.pc = "pipe"
    /\ c2s[1] = <<>>
    /\ koa' = [koa EXCEPT !.pc = "body", !.closed = TRUE]
    /\ UNCHANGED << cfg, ws, codec, clientVars, c2s, s2c, srv, tasks, faults, poison, peer,
                    dead, msg, derived >>

\* the response reads helper.readable: the encode stream is pulled, and the
\* write at the head of its writer goes through transform()
KoaEncode ==
    /\ koa.pc \in {"body", "closing"}
    /\ ServerEncode(1)

\* a sink whose close() does not wait for the writes before it
SinkCloseAtOnce == TRUE

\* the sink's close() runs when the decode stream has closed and every write
\* of the sink has returned
SinkClose == srv[1].queue = <<>> /\ ~srv[1].busy

\* the sink's close(): `await writer.close()`
KoaSinkClose ==
    /\ koa.pc = "body"
    /\ koa.closed
    /\ ~srv[1].err
    /\ SinkClose
    /\ koa' = [koa EXCEPT !.pc = "closing"]
    /\ UNCHANGED << cfg, ws, codec, clientVars, c2s, s2c, srv, tasks, faults, poison, peer,
                    dead, msg, derived >>

\* the writes queued before writer.close() are through: the encode stream
\* closes, and the response ends
KoaEnd ==
    /\ koa.pc = "closing"
    /\ srv[1].writer = <<>>
    /\ koa' = [koa EXCEPT !.pc = "ended"]
    /\ UNCHANGED << cfg, ws, codec, clientVars, c2s, s2c, srv, tasks, faults, poison, peer,
                    dead, msg, derived >>

InitKoa == InitWith({m \in Modes : m.http}, {"k1"}, "koa")
NextKoa ==
    \/ KoaPost
    \/ KoaDecodeWrite
    \/ KoaSinkRead
    \/ KoaPipeEnd
    \/ \E t \in DOMAIN tasks : ProcCallback(t)
    \/ \E t \in DOMAIN tasks : ProcReturn(t)
    \/ KoaEncode
    \/ KoaSinkClose
    \/ KoaEnd

\* the client sends its body to the end, the stream machinery and the
\* procedures run, and the client reads the response
SpecKoa == InitKoa /\ [][NextKoa]_vars /\ WF_vars(NextKoa)

\* the client goes away while the response is being sent: the response body
\* is destroyed, which cancels helper.readable and errors the writable side of
\* the encode stream.  Every write pending on the writer rejects: a proxy
\* rejects with the wrapped failure, a procedure awaiting it ends with that
\* error, and the write of a terminal message rejects the activation.
KoaCancel ==
    /\ koa.pc = "body"
    /\ faults < MaxFaults
    /\ faults' = faults + 1
    /\ koa' = [koa EXCEPT !.pc = "cancelled", !.werr = TRUE]
    /\ LET writer == srv[1].writer
           lost(t) == {j \in DOMAIN writer : writer[j].task = t}
       IN  /\ tasks' = [t \in DOMAIN tasks |->
                [tasks[t] EXCEPT
                    !.pc = IF \E j \in lost(t) : writer[j].awaited THEN "failed" ELSE @,
                    !.calls = [n \in DOMAIN @ |->
                                IF \E j \in lost(t) : writer[j].kind = "cb" /\ writer[j].n = n
                                THEN [promise |-> "rejected",
                                      error |-> ProxyError(WriteFailure)]
                                ELSE @[n]]]]
           /\ srv' = [srv EXCEPT ![1].writer = <<>>,
                                 ![1].err = \E j \in DOMAIN writer : writer[j].awaited]
    /\ UNCHANGED << cfg, ws, codec, clientVars, c2s, s2c, poison, peer, dead, msg, derived >>

NextKoaCancel ==
    \/ NextKoa
    \/ KoaCancel
SpecKoaCancel == InitKoa /\ [][NextKoaCancel]_vars

\* ============================================================== properties
\* what the procedure invocation i names ends with, on the arguments i passed
OwnResult(i) == ProcResult(inv[i].fn, inv[i].args)

\* the activations of rpcRunServerDecodeBuffer for the CALL of invocation i
TasksOf(i) == {t \in DOMAIN tasks : tasks[t].id = inv[i].id}

\* the invocation was settled by a RETURN or ERROR message
SettledByMessage(i) == inv[i].promise \in {"resolved", "rejected"} /\ inv[i].by # Local

\* the records a sequence of chunks of whole frames holds, in order
RECURSIVE RecordsOf(_)
RecordsOf(chunks) ==
    IF chunks = <<>> THEN <<>>
    ELSE parseBufferData(Head(chunks), cfg.key).queue \o RecordsOf(Tail(chunks))

\* the messages of server pipe p the client's sink has not processed yet, in
\* the order the outbound writer was given them
Outbound(p) ==
    LET records == cDec.queue \o RecordsOf(s2c[p]) \o
                   [j \in DOMAIN srv[p].writer |-> srv[p].writer[j].bytes]
    IN  [j \in DOMAIN records |-> parseRpcData(records[j])]

\* ---- C1
\* C1: an invocation resolves only with the value its own procedure returned on
\* its own arguments, and is rejected by a message only with the error its own
\* procedure threw; the RETURN or ERROR that settles a waiter carries the call
\* id of that waiter and of no other.
C1_OwnResult ==
    \A i \in Invs :
        /\ inv[i].promise = "resolved" =>
              /\ inv[i].by = inv[i].id
              /\ ~OwnResult(i).throws
              /\ inv[i].value = OwnResult(i).data
              /\ \E t \in TasksOf(i) :
                    /\ tasks[t].fn = inv[i].fn
                    /\ Len(tasks[t].params) = Len(inv[i].args)
                    /\ \A j \in DOMAIN inv[i].args :
                          IF inv[i].args[j][1] = "val"
                          THEN tasks[t].params[j] = inv[i].args[j]
                          ELSE tasks[t].params[j] = <<"fn", inv[i].keys[1]>>
                    /\ inv[i].value = ProcResult(tasks[t].fn, tasks[t].params).data
        /\ inv[i].promise = "rejected" /\ inv[i].by # Local =>
              /\ inv[i].by = inv[i].id
              /\ OwnResult(i).throws
              /\ inv[i].value = OwnResult(i).data

\* two calls were dispatched, and the later one resolved first
C1_Witness ==
    /\ inv[2].promise = "resolved"
    /\ inv[1].promise = "pending"
    /\ inv[1].pc = "wait"
    /\ TasksOf(1) # {}

\* ---- C2
\* C2: when an invocation has resolved, its callable was applied exactly as
\* many times as the procedure invoked the proxy before it returned, and is
\* never applied again.
C2_CallbackCount ==
    \A i \in Invs :
        inv[i].promise = "resolved" =>
            \E t \in TasksOf(i) :
                /\ tasks[t].pc \in {"retwait", "done"}
                /\ Len(inv[i].log) = tasks[t].k
                /\ \A j \in DOMAIN inv[i].log : inv[i].args[inv[i].log[j].pos][1] = "fn"

\* an invocation resolved after MaxCb applications of its callable
C2_Witness ==
    \E i \in Invs :
        /\ inv[i].promise = "resolved"
        /\ Len(inv[i].log) = MaxCb
        /\ \E t \in TasksOf(i) : tasks[t].k = MaxCb

\* ---- C3
\* C3: a CALLBACK is only emitted for a handle of a CALL the server received;
\* no CALLBACK of a call follows that call's RETURN or ERROR on the way to the
\* client; the callable is applied in the order the proxy was invoked.
C3_Ordering ==
    /\ \A i \in Invs : \A j \in DOMAIN inv[i].log : inv[i].log[j].args = <<j>>
    /\ \A p \in Pipes :
        LET out == Outbound(p)
        IN  \A b \in DOMAIN out :
                out[b].type = RPC_TYPE_CALLBACK =>
                    /\ \E t \in DOMAIN tasks : <<"fn", out[b].id>> \in Range(tasks[t].params)
                    /\ \A i \in Invs :
                          out[b].id \in Range(inv[i].keys) =>
                              /\ ~SettledByMessage(i)
                              /\ \A a \in 1..(b - 1) :
                                    ~(out[a].id = inv[i].id /\
                                      out[a].type \in {RPC_TYPE_RETURN, RPC_TYPE_ERROR})

\* the RETURN of a call is queued behind the two CALLBACKs the procedure emitted
C3_Witness ==
    \E p \in Pipes :
        LET w == srv[p].writer
        IN  /\ Len(w) = 3
            /\ w[1].kind = "cb" /\ w[2].kind = "cb" /\ w[3].kind = "ret"
            /\ w[1].task = w[3].task /\ w[2].task = w[3].task

\* ---- C4
\* C4: on a concurrent-mode pipeline and on the HTTP client, an invocation of
\* a procedure that returns at once resolves, whether or not the procedure of
\* another invocation ever returns.
C4_FastNotBlocked ==
    \A i \in Invs :
        ((cfg.async \/ cfg.http) /\ inv[i].fn = "hello" /\ inv[i].pc = "write")
            ~> (inv[i].promise = "resolved")

\* hello has resolved while longTimeBlock, dispatched before it, is running
C4_Witness ==
    /\ cfg.async \/ cfg.http
    /\ \E i, j \in Invs :
        /\ inv[i].fn = "hello" /\ inv[i].promise = "resolved"
        /\ inv[j].fn = "longTimeBlock" /\ inv[j].promise = "pending"
        /\ \E t \in TasksOf(j), u \in TasksOf(i) : t < u /\ tasks[t].pc = "run"

\* ---- C5
\* C5: a step in which an ERROR message rejects an invocation rejects the
\* invocation whose procedure threw and no other: every other promise, every
\* other entry of the pending table and the inbound stream are as before.
C5_OnlyOwnCall ==
    [][\A i \in Invs :
         (inv[i].promise = "pending" /\ inv'[i].promise = "rejected" /\ inv'[i].by # Local) =>
            /\ inv'[i].by = inv[i].id
            /\ OwnResult(i).throws
            /\ \A j \in Invs \ {i} : inv'[j].promise = inv[j].promise
            /\ \A k \in DOMAIN callbackFunctionMap :
                  k # inv[i].id =>
                     k \in DOMAIN callbackFunctionMap' /\
                     callbackFunctionMap'[k] = callbackFunctionMap[k]
            /\ cDec'.err = cDec.err]_vars

\* an invocation issued after another was rejected by a remote error has resolved
C5_Witness ==
    \E i, j \in Invs :
        /\ inv[i].promise = "rejected" /\ inv[i].by = inv[i].id
        /\ i \in inv[j].prior
        /\ inv[j].promise = "resolved"
        /\ inv[j].outcome = "resolved"

\* ---- C6
\* C6: once a RETURN or an ERROR message has settled an invocation, the
\* pending table holds no entry for its call id.
C6_EntryRemoved ==
    \A i \in Invs : SettledByMessage(i) => inv[i].id \notin DOMAIN callbackFunctionMap

\* ---- C7
\* C7: once an invocation has completed, by RETURN, by remote ERROR or by a
\* local failure, the pending table holds none of the handles registered for
\* it; the completion of an invocation by a message leaves the callback slots
\* of every other invocation in the table.
C7_LeakFreedom ==
    /\ [](\A i \in Invs :
            inv[i].outcome \in {"resolved", "rejected"} =>
                Range(inv[i].keys) \cap DOMAIN callbackFunctionMap = {})
    /\ [][\A i \in Invs :
            (inv'[i].by # Local /\
             \/ inv[i].promise = "pending" /\ inv'[i].promise # "pending"
             \/ inv[i].outcome = "none" /\ inv'[i].outcome # "none") =>
                \A j \in Invs \ {i} :
                    \A k \in Range(inv[j].keys) \cap DOMAIN callbackFunctionMap :
                        k \in DOMAIN callbackFunctionMap']_vars

\* an invocation with a callable has completed while the callback slot of
\* another invocation is in the table
C7_Witness ==
    \E i, j \in Invs :
        /\ i # j
        /\ inv[i].outcome = "resolved" /\ inv[i].keys # <<>>
        /\ inv[j].promise = "pending" /\ inv[j].keys # <<>>
        /\ Range(inv[j].keys) \subseteq DOMAIN callbackFunctionMap

\* ---- C8
\* C8: the ids of calls and handles are pairwise different and below the
\* counter, every entry of the pending table is in the one role it was
\* registered in, and every id a step registers is taken from the counter,
\* which only grows.
IdsOf(i) == IF inv[i].pc = "idle" THEN {} ELSE {inv[i].id} \cup Range(inv[i].keys)
C8_UniqueIds ==
    /\ [](/\ \A i \in Invs :
               /\ \A k \in IdsOf(i) : 0 <= k /\ k < uniqueKeyID
               /\ inv[i].pc # "idle" =>
                     Cardinality(IdsOf(i)) = 1 + Len(inv[i].keys)
          /\ \A i, j \in Invs : i # j => IdsOf(i) \cap IdsOf(j) = {}
          /\ \A k \in DOMAIN callbackFunctionMap :
               LET o == callbackFunctionMap[k]
               IN  /\ HasPromise(o) => inv[o.inv].id = k
                   /\ HasCallback(o) => k \in Range(inv[o.inv].keys))
    /\ [][/\ uniqueKeyID' >= uniqueKeyID
          /\ \A k \in DOMAIN callbackFunctionMap' \ DOMAIN callbackFunctionMap :
                uniqueKeyID <= k /\ k < uniqueKeyID']_vars

\* two invocations with a callable each are registered: four ids, four entries
C8_Witness ==
    /\ uniqueKeyID = 4
    /\ Cardinality(DOMAIN callbackFunctionMap) = 4
    /\ \A i \in {1, 2} : inv[i].promise = "pending" /\ Len(inv[i].keys) = 1

\* ---- C9
\* C9: a step of reject(error), and a step in which the sink is handed a
\* record that does not unpack, rejects every waiter that is pending with
\* that error, leaves every settled invocation as it was, and empties the table.
Failed(error) ==
    /\ \A k \in DOMAIN callbackFunctionMap :
          LET o == callbackFunctionMap[k]
          IN  HasPromise(o) /\ inv[o.inv].promise = "pending" =>
                 /\ inv'[o.inv].promise = "rejected"
                 /\ inv'[o.inv].by = Local
                 /\ inv'[o.inv].value = error
    /\ \A i \in Invs : inv[i].promise # "pending" => inv'[i] = inv[i]
    /\ DOMAIN callbackFunctionMap' = {}
\* the inbound sink is handed a record that does not unpack
Unparsed ==
    \E p \in Pipes, kind \in JunkKinds :
        /\ JunkOf(p, kind)
        /\ ~cDec.err
        /\ LET pp == Packets(p, JunkChunk(kind))
               d == DecodeTransform(cDec.last, pp.out, cfg.key)
           IN  /\ pp.out # <<>>
               /\ d.ok
               /\ d.queue # <<>>
               /\ ~parseRpcData(Head(d.queue)).ok
C9_FailRejectsAll ==
    [][/\ CarrierReject => Failed(RPCError("carrier", "local"))
       /\ Unparsed => Failed(RPCError("unpack", "local"))]_vars

\* two waiters were rejected together by a record that did not unpack, and
\* the table is empty
C9_Witness ==
    /\ faults = 1
    /\ inv[1].value = RPCError("unpack", "local")
    /\ \A i \in {1, 2} : inv[i].promise = "rejected" /\ inv[i].by = Local
    /\ inv[1].value = inv[2].value
    /\ DOMAIN callbackFunctionMap = {}

\* ---- C10
\* C10: an invocation that was pending when a frame with a wrong magic value,
\* or a frame that does not decrypt, was delivered does not resolve: no
\* inbound record is processed after such a frame.
C10_Poisoned ==
    \A i \in poison.pending : inv[i].promise # "resolved"

\* ---- C11
\* the invocations the WebSocket client can no longer settle: the signal is
\* aborted, the retry loop has ended, and no socket is left to bring an answer
Abandoned == ws.aborted /\ ws.pc = "stopped" /\ ws.socket = "none"

\* C11: once the WebSocket client's connection has closed on an abort, no
\* invocation that was outstanding is left pending: each was rejected with the
\* carrier failure.
C11_OutstandingRejected ==
    Abandoned =>
        \A i \in Invs :
            inv[i].pc \in {"write", "wait"} =>
                inv[i].promise = "rejected" /\ inv[i].by = Local

\* ---- C12
\* C12: whatever the payload records and however their encoded bytes are cut
\* into chunks, the frame decoder never fails, emits a prefix of the records
\* in order while bytes are outstanding, and has emitted exactly the records,
\* with nothing left over, when the last byte is in.
C12_RoundTrip ==
    /\ ~codec.err
    /\ Len(codec.out) <= Len(codec.records)
    /\ codec.out = SubSeq(codec.records, 1, Len(codec.out))
    /\ codec.records # <<>> /\ codec.wire = <<>> =>
            codec.out = codec.records /\ codec.last = <<>>

\* two records under a key were emitted although a chunk had ended inside a
\* frame header
C12_Witness ==
    /\ codec.key # NoKey
    /\ Len(codec.records) = 2
    /\ codec.records[1] # codec.records[2]
    /\ Len(codec.records[1]) > 0
    /\ codec.cut
    /\ codec.out = codec.records
    /\ codec.wire = <<>>

\* ---- C13
\* C13: when the procedure of an invocation threw an error e, what the caller
\* catches has e's message, and its cause carries e's message and e's stack.
C13_ErrorChained ==
    \A i \in Invs :
        inv[i].outcome = "rejected" /\ inv[i].by = inv[i].id =>
            /\ OwnResult(i).throws
            /\ inv[i].caught.message = OwnResult(i).data.message
            /\ inv[i].caught.cause.message = OwnResult(i).data.message
            /\ inv[i].caught.cause.stack = OwnResult(i).data.stack

\* the caller caught the error throwError threw on the server
C13_Witness ==
    \E i \in Invs :
        /\ inv[i].fn = "throwError"
        /\ inv[i].outcome = "rejected"
        /\ inv[i].by = inv[i].id
        /\ inv[i].caught.cause.stack = "at throwError"
        /\ \E t \in TasksOf(i) : tasks[t].pc = "done"

\* ---- C14
\* an argument of invocation i is a callable that is no AsyncFunction
HasSyncFunction(args) == \E j \in DOMAIN args : args[j] = <<"fn", SyncFunction>>

C15_EchoFidelity ==
    \A i \in Invs :
        inv[i].promise = "resolved" =>
            /\ inv[i].fn = "echo" => inv[i].value = inv[i].args[1][2]
            /\ inv[i].fn = "void" => inv[i].value = Undefined /\ inv[i].value # Null

\* null came back as null, and the procedure that returns nothing as undefined
C15_Witness ==
    \E i, j \in Invs :
        /\ inv[i].fn = "echo" /\ inv[i].args[1][2] = Null
        /\ inv[i].outcome = "resolved" /\ inv[i].value = Null
        /\ inv[j].fn = "void"
        /\ inv[j].outcome = "resolved" /\ inv[j].value = Undefined

\* ---- C16
\* C16: in sequential mode, when a pipeline has started the procedure of a
\* CALL, the procedure of every CALL it took before has returned or thrown
\* and its RETURN or ERROR has left the outbound writer: at most one
\* procedure of the pipeline is running at any time.
C16_Sequential ==
    ~cfg.async =>
        /\ \A t1, t2 \in DOMAIN tasks :
              t1 < t2 /\ tasks[t1].pipe = tasks[t2].pipe =>
                  /\ tasks[t1].pc = "done"
                  /\ \A j \in DOMAIN srv[tasks[t1].pipe].writer :
                        srv[tasks[t1].pipe].writer[j].task # t1
        /\ \A p \in Pipes :
              Cardinality({t \in DOMAIN tasks : tasks[t].pipe = p /\ tasks[t].pc # "done"}) <= 1

\* a sequential duplex pipeline runs its second CALL; the first, whose
\* procedure invoked a callback, has been answered
C16_Witness ==
    /\ ~cfg.async
    /\ ~cfg.http
    /\ Len(tasks) = 2
    /\ tasks[1].pipe = tasks[2].pipe
    /\ tasks[1].k > 0
    /\ tasks[2].pc = "run"

RECURSIVE Flat(_)
Flat(chunks) == IF chunks = <<>> THEN <<>> ELSE Head(chunks) \o Flat(Tail(chunks))

\* the step keeps the order of one outbound chain: records join the writer's
\* queue `was` behind those queued before, and the only frame that leaves
\* for `sent` is the frame of the oldest queued record, which leaves the queue
Fifo(was, now, sent, sentNow) ==
    \/ now = was /\ Len(sentNow) <= Len(sent)
    \/ /\ Len(now) > Len(was)
       /\ SubSeq(now, 1, Len(was)) = was
       /\ sentNow = sent
    \/ /\ was # <<>>
       /\ now = Tail(was)
       /\ sentNow = sent \o buildBufferData(<<Head(was).bytes>>, cfg.key)

\* C18: on every server pipeline and on the client, frames leave the encode
\* chain in the order their records were written to the outbound writer, also
\* while several calls and their callback proxies write to the same writer.
C18_OutboundOrder ==
    [][/\ \A p \in Pipes :
            \E sent \in {Flat(s2c[p])}, sentNow \in {Flat(s2c'[p])} :
                Fifo(srv[p].writer, srv'[p].writer, sent, sentNow)
       /\ \E sent \in {Flat(Flat(c2s))}, sentNow \in {Flat(Flat(c2s'))} :
                Fifo(cWriter, cWriter', sent, sentNow)]_vars

\* a concurrent pipeline has sent a frame while its writer holds records of
\* two calls, one of them written by a callback proxy
C18_Witness ==
    /\ cfg.async
    /\ s2c[1] # <<>>
    /\ \E j, k \in DOMAIN srv[1].writer :
          /\ j < k
          /\ srv[1].writer[j].task # srv[1].writer[k].task
          /\ srv[1].writer[j].kind = "cb"

C20_HeldUntilOpen ==
    /\ [](\A i \in Invs :
            inv[i].pc = "write" => inv[i].promise = "pending" /\ TasksOf(i) = {})
    /\ [][(\E p \in Pipes : Len(c2s'[p]) > Len(c2s[p])) =>
            /\ ws'.socket = "open"
            /\ ~ws'.aborted
            /\ cWriter # <<>>
            /\ cWriter' = Tail(cWriter)
            /\ c2s' = [c2s EXCEPT ![ws'.pipe] =
                          Append(@, buildBufferData(<<Head(cWriter).bytes>>, cfg.key))]]_vars
    /\ [][cWriter # <<>> /\ cWriter' = Tail(cWriter) /\ ~ws'.aborted =>
            \E p \in Pipes : Len(c2s'[p]) > Len(c2s[p])]_vars
    /\ [][ws.parked /\ ws'.socket = "open" /\ ws.socket # "open" =>
            cWriter' = Tail(cWriter)]_vars
    /\ \A i \in Invs :
          (inv[i].pc = "write" /\ ws.socket = "open" /\ ~ws.aborted)
              ~> (inv[i].pc # "write" \/ ws.socket # "open" \/ ws.aborted)

\* the only invocation issued was held by the sink, went out when a connection
\* opened, and has resolved
C20_Witness ==
    /\ ws.flushed
    /\ Len(tasks) = 1
    /\ inv[1].outcome = "resolved"
    /\ inv[2].pc = "idle"

\* ---- C21
\* C21: a message of the peer whose id names no entry of the pending table
\* changes nothing at the client: the table, the promises of the invocations
\* and the record of the callables applied are what they were.
C21_UnknownDropped ==
    [][(peer'.n # peer.n /\ peer'.role = "unknown")
        => (callbackFunctionMap' = callbackFunctionMap /\ inv' = inv)]_vars

\* a CALLBACK under an id the table did not hold has arrived while an
\* invocation was waiting for its result, and that invocation still waits
C21_Witness ==
    /\ peer.n > 0
    /\ peer.role = "unknown"
    /\ peer.type = RPC_TYPE_CALLBACK
    /\ \E i \in Invs : Pending(i) /\ inv[i].id < peer.id /\ inv[i].log = <<>>

\* ---- C22
\* C22: when an invocation has been rejected locally for a callable argument
\* that is no AsyncFunction, the pending table holds no entry under its call
\* id and none under a key allocated for it.
C22_NoEntryAfterUsageError ==
    \A i \in Invs :
        inv[i].outcome = "usage" =>
            /\ inv[i].id \notin DOMAIN callbackFunctionMap
            /\ Range(inv[i].keys) \cap DOMAIN callbackFunctionMap = {}

\* ---- C23
\* C23: when the caller of an invocation has observed its result or its
\* rejection, the pending table holds no callback slot of that invocation.
C23_SlotsRemoved ==
    \A i \in Invs :
        inv[i].pc = "done" =>
            \A k \in DOMAIN callbackFunctionMap :
                ~(HasCallback(callbackFunctionMap[k]) /\ callbackFunctionMap[k].inv = i)


\* ---- C24
\* the inbound side has a chunk for the sink, and nothing left to do before
Ready(p) == s2c[p] # <<>> /\ p \notin dead /\ cDec.queue = <<>> /\ ~MicrotaskPending

\* C24: a CALLBACK of the peer whose id names a registered slot applies the
\* callable of that slot once, to the payloads of the message in their order,
\* and changes nothing else: the slot stays registered; and a callable that is
\* still running never keeps the inbound side from taking its next chunk.
C24_CallbackApplied ==
    /\ [](\A p \in Pipes : Ready(p) => ENABLED ClientRecv(p))
    /\ [][(peer'.n # peer.n /\ peer'.type = RPC_TYPE_CALLBACK /\ peer'.role = "slot")
            => /\ callbackFunctionMap' = callbackFunctionMap
               /\ inv' = [inv EXCEPT
                            ![peer'.owner].running = @ + 1,
                            ![peer'.owner].log =
                                Append(@, [pos |-> callbackFunctionMap[peer'.id].pos,
                                           args |-> <<"a", "b">>])]]_vars

\* the callable of a slot was applied to the peer's CALLBACK and has not
\* finished, the slot is still registered, and the RETURN that arrived later
\* has resolved the invocation
C24_Witness ==
    /\ peer.n > 0 /\ peer.type = RPC_TYPE_CALLBACK /\ peer.role = "slot"
    /\ peer.id \in DOMAIN callbackFunctionMap
    /\ LET i == peer.owner
       IN  /\ inv[i].running = Len(inv[i].log)
           /\ \E j \in DOMAIN inv[i].log : inv[i].log[j].args = <<"a", "b">>
           /\ inv[i].promise = "resolved"
           /\ inv[i].pc = "wait"

\* ---- C25
\* C25: the bytes the decoder carries over to the next chunk never are a whole
\* header (8 bytes or more) whose magic field is not the magic value: such a
\* carry is discarded at once.
C25_BadMagicDiscarded ==
    ~(Len(codec.last) >= 8 /\ SubSeq(codec.last, 5, 8) # HEADER_CHECK)

\* ---- C26
\* the RETURN and ERROR records of task t its pipeline's writer holds
Terminals(t) ==
    LET writer == srv[tasks[t].pipe].writer
    IN  {j \in DOMAIN writer :
            /\ writer[j].task = t
            /\ parseRpcData(writer[j].bytes).type \in {RPC_TYPE_RETURN, RPC_TYPE_ERROR}}

C27_IdsReceived ==
    \A p \in Pipes : \A j \in DOMAIN srv[p].writer :
        LET m == parseRpcData(srv[p].writer[j].bytes)
        IN  m.type \in {RPC_TYPE_RETURN, RPC_TYPE_ERROR}
                => \E t \in DOMAIN tasks :
                        tasks[t].pipe = p /\ tasks[t].call /\ tasks[t].id = m.id

\* ---- C28
\* the key apiInvoke allocated for the callable at position j of invocation i
KeyAt(i, j) == inv[i].keys[Cardinality({q \in 1..j : inv[i].args[q][1] = "fn"})]

\* C28: the procedure of a call is given as many parameters as the caller
\* passed arguments; at the position of a value it is given that value, at the
\* position of a callable a proxy bound to the key allocated for that callable.
\* A CALLBACK record written by the proxy at a position carries that key, and
\* the pending table, as long as it holds that key, holds under it the slot of
\* that callable of that invocation.
C28_ProxiesBound ==
    \A i \in Invs : \A t \in TasksOf(i) :
        /\ Len(tasks[t].params) = Len(inv[i].args)
        /\ \A j \in DOMAIN inv[i].args :
            IF inv[i].args[j][1] = "fn"
            THEN /\ tasks[t].params[j] = <<"fn", KeyAt(i, j)>>
                 /\ KeyAt(i, j) \in DOMAIN callbackFunctionMap
                        => callbackFunctionMap[KeyAt(i, j)] = Slot(i, j)
            ELSE tasks[t].params[j] = inv[i].args[j]
        /\ \A w \in DOMAIN srv[tasks[t].pipe].writer :
            LET h == srv[tasks[t].pipe].writer[w]
            IN  (h.task = t /\ h.kind = "cb")
                    => /\ inv[i].args[h.proxy][1] = "fn"
                       /\ parseRpcData(h.bytes).id = KeyAt(i, h.proxy)
                       /\ parseRpcData(h.bytes).type = RPC_TYPE_CALLBACK

\* two calls are running, one of them with two callables; of that call the
\* caller's third argument and no other has been applied, and a CALLBACK the
\* proxy at the first position wrote is still in the server's writer
C28_Witness ==
    \E i, j \in Invs :
        /\ i # j /\ Pending(i) /\ Pending(j)
        /\ Len(inv[i].args) = 3
        /\ \E t \in TasksOf(i), u \in TasksOf(j) : tasks[t].pc = "run" /\ tasks[u].pc = "run"
        /\ \E t \in TasksOf(i) : \E w \in DOMAIN srv[tasks[t].pipe].writer :
                srv[tasks[t].pipe].writer[w].task = t /\ srv[tasks[t].pipe].writer[w].proxy = 1
        /\ inv[i].log # <<>> /\ \A e \in DOMAIN inv[i].log : inv[i].log[e].pos = 3

\* ---- C29
\* a RETURN or ERROR whose id names a callback slot, a CALLBACK whose id names
\* a result waiter
Mismatched(m) ==
    \/ m.type \in {RPC_TYPE_RETURN, RPC_TYPE_ERROR} /\ m.role = "slot"
    \/ m.type = RPC_TYPE_CALLBACK /\ m.role = "waiter"

\* C29: a message of the peer whose type does not fit the entry its id names
\* leaves every entry of another invocation in the pending table as it was,
\* and the promise of every other invocation as it was.
C29_OthersUntouched ==
    [][(peer'.n # peer.n /\ Mismatched(peer'))
        => \A k \in DOMAIN callbackFunctionMap :
             LET o == callbackFunctionMap[k]
             IN  o.inv # peer'.owner =>
                    /\ k \in DOMAIN callbackFunctionMap'
                    /\ callbackFunctionMap'[k] = o
                    /\ inv'[o.inv].promise = inv[o.inv].promise]_vars

\* ---- C30
\* the step is the fail path of request p, for either of its causes
PostFails(p) == cfg.http /\ p \notin dead /\ p \in dead' /\ Len(c2s'[p]) < Len(c2s[p])
BodyFails(p) == cfg.http /\ p \notin dead /\ p \in dead' /\ c2s'[p] = c2s[p]

\* C30: on the HTTP client, when the POST of a chunk fails or the body of its
\* response errors, every invocation that is pending then is rejected with
\* that error, the promises settled before are what they were, and the pending
\* table is empty.
C30_HttpFailRejectsAll ==
    [][\A p \in Pipes :
        /\ PostFails(p) => Failed(FetchError)
        /\ BodyFails(p) => Failed(BodyError)]_vars

\* the POST of the second call has failed while the first call, which the
\* server has, was pending: both invocations are rejected with the fetch error
\* and the table is empty
C30_Witness ==
    /\ cfg.http /\ dead = {2}
    /\ \A i \in Invs : inv[i].promise = "rejected" /\ inv[i].value = FetchError
    /\ TasksOf(1) # {} /\ TasksOf(2) = {}
    /\ DOMAIN callbackFunctionMap = {}

\* ---- C40
\* C40: a message that was built and parsed again has the id, the type and the
\* data it had; the argument list of a CALL or CALLBACK has its length, and at
\* every position the tag and the payload of the item that was there.
C40_MessageRoundTrip ==
    msg.pc = "parsed" =>
        /\ msg.back.ok
        /\ msg.back.id = msg.box.id
        /\ msg.back.type = msg.box.type
        /\ IF IsArgList(msg.box.type)
           THEN /\ Len(msg.back.data) = Len(msg.box.data)
                /\ \A j \in DOMAIN msg.box.data :
                    /\ msg.back.data[j].type = msg.box.data[j].type
                    /\ msg.back.data[j].data = msg.box.data[j].data
           ELSE msg.back.data = msg.box.data

\* a CALLBACK with a callable item behind a value item has been built and parsed
C40_Witness ==
    /\ msg.pc = "parsed"
    /\ msg.box.type = RPC_TYPE_CALLBACK
    /\ Len(msg.box.data) = 2
    /\ msg.box.data[1].type = RPC_DATA_ARG_TYPE_OTHERS
    /\ msg.box.data[2].type = RPC_DATA_ARG_TYPE_FUNCTION
    /\ msg.back.data = msg.box.data

\* ---- C32
\* the chunk is one or more whole frames and nothing else
WholeFrames(chunk) ==
    \E r \in {parseBufferData(chunk, NoKey)} :
        /\ r.ok
        /\ r.queue # <<>>
        /\ r.remain = <<>>
        /\ buildBufferData(r.queue, NoKey) = chunk

\* C32: every chunk the normalizing pass has enqueued is one or more whole
\* frames; the chunks enqueued, the bytes held back and the bytes still to come
\* are, in this order, the response body as it was sent; the bytes held back
\* hold no whole frame; and when the body has arrived all of it was enqueued.
C32_Normalized ==
    /\ \A j \in DOMAIN codec.chunks : WholeFrames(codec.chunks[j])
    /\ Flat(codec.chunks) \o codec.last \o codec.wire
            = buildBufferData(codec.records, codec.key)
    /\ parseBufferData(codec.last, NoKey).queue = <<>>
    /\ codec.records # <<>> /\ codec.wire = <<>> => codec.last = <<>>

\* a body of two encrypted frames has arrived in pieces, one of which ended
\* inside a frame, and was enqueued as two chunks of one frame each
C32_Witness ==
    /\ codec.key # NoKey
    /\ Len(codec.records) = 2
    /\ codec.wire = <<>>
    /\ codec.cut
    /\ Len(codec.chunks) = 2
    /\ Flat(codec.chunks) = buildBufferData(codec.records, codec.key)

\* ---- C31
\* the records of the response of request p the engine was not given yet
Unread(p, last, chunks) == parseBufferData(last \o Flat(chunks), NoKey)

\* C31: the shared decoder of an HTTP client never carries bytes over from one
\* chunk to the next and never fails, whatever the responses were cut into; and
\* a step that takes a chunk of a response gives the engine the next records of
\* that response, whole and in order: the first goes to the sink, the others
\* wait for it in the order they have in the response.
C31_NoSplice ==
    /\ [](cDec.last = <<>> /\ ~cDec.err)
    /\ [][\A p \in Pipes :
            (s2c[p] # <<>> /\ s2c'[p] = Tail(s2c[p]))
              => \E was \in {Unread(p, pktLast[p], s2c[p])},
                    now \in {Unread(p, pktLast'[p], s2c'[p])} :
                    /\ was.ok /\ now.ok
                    /\ Len(was.queue) >= Len(now.queue)
                    /\ SubSeq(was.queue, Len(was.queue) - Len(now.queue) + 1, Len(was.queue))
                            = now.queue
                    /\ \E given \in {SubSeq(was.queue, 1, Len(was.queue) - Len(now.queue))} :
                        IF given = <<>>
                        THEN callbackFunctionMap' = callbackFunctionMap /\ inv' = inv
                                /\ cDec' = cDec
                        ELSE \E d \in {decrypt(Head(given), cfg.key)},
                                r \in {SinkWrite([map |-> callbackFunctionMap, inv |-> inv],
                                                 decrypt(Head(given), cfg.key).data)} :
                                /\ d.ok
                                /\ callbackFunctionMap' = r.map /\ inv' = r.inv
                                /\ Len(cDec'.queue) = Len(given) - 1]_vars

\* the response of the first request was cut inside a frame; its first piece,
\* then the whole response of the second request, were taken, and the second
\* invocation has resolved while the first response still is held back
C31_Witness ==
    /\ faults = 1
    /\ pktLast[1] # <<>>
    /\ s2c[1] # <<>>
    /\ inv[2].promise = "resolved"
    /\ inv[1].promise = "pending"
    /\ \E t \in TasksOf(1) : tasks[t].pc = "done"

\* ---- C36
\* C36: an activation the server started on a record that was no CALL, which
\* here is a CALLBACK message of the peer, runs the procedure its first item
\* names on the items behind it, under the id of the message; what it has
\* written is the RETURN of that procedure's result under that id.
C36_CallbackDispatched ==
    \A t \in DOMAIN tasks :
        ~tasks[t].call =>
            /\ peer.n > 0
            /\ tasks[t].fn = "hello"
            /\ tasks[t].params = << <<"val", "peer">> >>
            /\ tasks[t].pc \in {"run", "retwait", "done"}
            /\ tasks[t].pc = "retwait" => Terminals(t) # {}
            /\ \A j \in Terminals(t) :
                LET m == parseRpcData(srv[tasks[t].pipe].writer[j].bytes)
                IN  /\ m.id = tasks[t].id
                    /\ m.type = RPC_TYPE_RETURN
                    /\ m.data = <<"hello", "peer">>

\* the CALLBACK message carried the id of a pending invocation of the client;
\* the procedure ran, and the RETURN written under that id has resolved the
\* invocation with the result of the peer's call
C36_Witness ==
    \E t \in DOMAIN tasks, i \in Invs :
        /\ ~tasks[t].call /\ tasks[t].pc = "done"
        /\ peer.id = tasks[t].id
        /\ inv[i].id = peer.id
        /\ inv[i].promise = "resolved"
        /\ inv[i].value = <<"hello", "peer">>

\* the payload of a one-record frame: what follows the length and the check
FramePayload(frame) == SubSeq(frame, 9, Len(frame))

\* C37: with a non-empty rpcKey every frame the client has put on the carrier
\* has a payload encrypted under the derived key, and no frame is put on the
\* carrier while the key is still being derived: a record written to the
\* writer before that stays queued until start() of the encode stream is done.
C37_NoClearFrame ==
    /\ [](cfg.key # NoKey =>
            \A p \in Pipes : \A n \in 1..Len(c2s[p]) :
                \E payload \in {FramePayload(c2s[p][n])} :
                    /\ payload # <<>>
                    /\ \A c \in 1..Len(payload) : payload[c].k = cfg.key)
    /\ [][(\E p \in Pipes : Len(c2s'[p]) > Len(c2s[p])) => derived]_vars

\* an invocation was issued while the key was being derived, its record waited
\* in the writer, and after the derivation its frame is on the carrier
C37_Witness ==
    /\ cfg.key # NoKey
    /\ derived
    /\ \E i \in Invs : inv[i].pc = "wait" /\ inv[i].early
    /\ \E p \in Pipes : c2s[p] # <<>>

\* a frame whose payload is not encrypted under the pipeline's key
NotUnderKey(frame) ==
    \E c \in 9..Len(frame) : frame[c].k # cfg.key

\* C38: a server pipeline with an rpcKey starts no activation for a frame whose
\* payload is under another key or in clear text: the step that takes such a
\* frame from the carrier fails in the decoder, leaves the activations as
\* they are, and no activation ever holds the parameters of that frame's CALL.
C38_NoForeignDispatch ==
    /\ [](cfg.key # NoKey =>
            \A t \in DOMAIN tasks : tasks[t].params # << <<"val", 0>> >>)
    /\ [][\A p \in Pipes :
            (/\ cfg.key # NoKey
             /\ c2s[p] # <<>>
             /\ c2s'[p] = Tail(c2s[p])
             /\ NotUnderKey(Head(c2s[p])))
            => (tasks' = tasks /\ srv'[p].err /\ srv'[p].writer = srv[p].writer)]_vars

\* the server has taken the foreign frame from the carrier after it had
\* dispatched a call of the client: its decoder has failed, and the only
\* activations are those of the client's own calls
C38_Witness ==
    /\ cfg.key # NoKey
    /\ peer.role = "foreign"
    /\ \E p \in Pipes : c2s[p] = <<>> /\ srv[p].err
    /\ tasks # <<>>
    /\ \A t \in DOMAIN tasks : tasks[t].call /\ tasks[t].fn \in {"hello", "callback"}

\* how far the reconnect loop is from its end: in an attempt, in the wait
\* behind it, at the loop condition, ended
LoopRank(pc) ==
    CASE pc = "await" -> 0
      [] pc = "sleep" -> 1
      [] pc = "loop" -> 2
      [] pc = "stopped" -> 3

\* C39: once the signal is aborted no step starts a connection attempt, the
\* loop only moves on from the attempt in progress to the one wait behind
\* it, to the loop condition and to its end, and it does reach its end.
C39_LoopTerminates ==
    /\ [][ws.aborted =>
            /\ ~(ws.pc # "await" /\ ws'.pc = "await")
            /\ ws'.socket # "connecting" \/ ws.socket = "connecting"
            /\ LoopRank(ws'.pc) \in {LoopRank(ws.pc), LoopRank(ws.pc) + 1}]_vars
    /\ (ws.aborted ~> ws.pc = "stopped")

\* the signal was aborted during an attempt: the loop has ended, and the last
\* thing it did was the wait behind that attempt
C39_Witness ==
    /\ ws.aborted
    /\ ws.pc = "stopped"
    /\ ws.socket = "none"
    /\ ws.pipe >= 1
    /\ ws.slept > 0

\* the terminal messages in the response body
KoaTerminals ==
    {m \in {parseRpcData(r) : r \in Range(RecordsOf(s2c[1]))} :
        m.type \in {RPC_TYPE_RETURN, RPC_TYPE_ERROR}}

\* the handler has read the request, every call of the body was dispatched,
\* and the response has ended with a terminal message for each of them
KoaServed ==
    /\ koa.pc = "ended"
    /\ Len(tasks) = koa.sent
    /\ \A i \in 1..koa.sent : \E m \in KoaTerminals : m.id = i - 1

\* dispatch is blocked on a write to the response nobody reads yet, while
\* the handler is still writing the request to the decode stream, which has
\* backpressure until the sink takes another record
KoaStuck ==
    /\ koa.pc = "pipe"
    /\ c2s[1] # <<>>
    /\ koa.bp
    /\ srv[1].busy
    /\ srv[1].writer # <<>>
    /\ \A t \in DOMAIN tasks : tasks[t].pc \in {"cbwait", "retwait", "done"}

\* C33: for a POST body of k >= 1 CALL frames in any chunking the pipeline is
\* never stuck with dispatch blocked on the unread response while the request
\* is still being consumed, and the handler gets to the end of the request,
\* every call is dispatched, and the response carries a terminal message for
\* each call.
C33_PostCompletes ==
    /\ [](~KoaStuck)
    /\ (koa.pc = "pipe" ~> KoaServed)

\* the CALLBACK messages in the response body that a proxy of activation t sent
KoaCallbacks(t) ==
    LET records == RecordsOf(s2c[1])
    IN  {j \in DOMAIN records :
            \E m \in {parseRpcData(records[j])} :
                /\ m.type = RPC_TYPE_CALLBACK
                /\ <<"fn", m.id>> \in Range(tasks[t].params)}

\* C34: the sequential server calls close on its outbound writer, and the
\* response ends, only when the request body has ended and was decoded to its
\* end, and every dispatched call has its terminal message in the response
\* together with every CALLBACK its procedure submitted.
C34_CloseAfterTerminals ==
    koa.pc \in {"closing", "ended"} =>
        /\ koa.closed
        /\ c2s[1] = <<>>
        /\ srv[1].queue = <<>>
        /\ koa.pc = "ended" => srv[1].writer = <<>>
        /\ Len(tasks) = koa.calls
        /\ \A t \in DOMAIN tasks :
            /\ tasks[t].pc = "done"
            /\ \E m \in KoaTerminals : m.id = tasks[t].id
            /\ Cardinality(KoaCallbacks(t)) = tasks[t].k
            /\ \A n \in DOMAIN tasks[t].calls : tasks[t].calls[n].promise = "resolved"

\* the response has ended after MaxInv calls, one of which sent MaxCb
\* CALLBACKs, all of which are in the response
C34_Witness ==
    /\ koa.pc = "ended"
    /\ Len(tasks) = MaxInv
    /\ \E t \in DOMAIN tasks :
        /\ tasks[t].k = MaxCb
        /\ Cardinality(KoaCallbacks(t)) = MaxCb

\* in the stuck state nothing can happen
KoaStuckForever == KoaStuck => ~ENABLED NextKoa

\* the writes of CALLBACK messages pending on the writer of pipeline p: the
\* activation and the number of the proxy call of each
PendingCallbacks(p) ==
    {<<srv[p].writer[j].task, srv[p].writer[j].n>> :
        j \in {q \in DOMAIN srv[p].writer : srv[p].writer[q].kind = "cb"}}

\* C35: the promise of a proxy call is pending exactly while its CALLBACK
\* message waits in the outbound writer; the step that resolves it is the step
\* in which the writer takes that message and puts its frame on the carrier;
\* a proxy promise is rejected only when the write has failed, and then with
\* the Error 'rpc callback writer.write()' whose cause is the write failure.
C35_ProxyAfterWrite ==
    /\ [](\A t \in DOMAIN tasks : \A n \in DOMAIN tasks[t].calls :
            \E c \in {tasks[t].calls[n]} :
                /\ c.promise = "pending" <=> <<t, n>> \in PendingCallbacks(tasks[t].pipe)
                /\ c.promise = "rejected" =>
                        /\ WriterErrored(tasks[t].pipe)
                        /\ c.error.message = "rpc callback writer.write()"
                        /\ c.error.cause = WriteFailure.message
                /\ c.promise # "rejected" => c.error = NoError)
    /\ [][\A t \in DOMAIN tasks : \A n \in DOMAIN tasks[t].calls :
            (tasks[t].calls[n].promise = "pending" /\ tasks'[t].calls[n].promise = "resolved")
            => \E p \in {tasks[t].pipe} : \E h \in {Head(srv[p].writer)} :
                /\ h.task = t /\ h.n = n /\ h.kind = "cb"
                /\ srv'[p].writer = Tail(srv[p].writer)
                /\ RecordsOf(s2c'[p]) = Append(RecordsOf(s2c[p]), h.bytes)]_vars

\* a procedure's first proxy call resolved when its CALLBACK was written, and
\* its second was rejected because the response had been cancelled
C35_Witness ==
    \E t \in DOMAIN tasks :
        /\ Len(tasks[t].calls) = 2
        /\ tasks[t].calls[1].promise = "resolved"
        /\ tasks[t].calls[2].promise = "rejected"
        /\ Cardinality(KoaCallbacks(t)) = 1

=============================================================================
